---- MODULE Spec2Model ----
(***************************************************************************)
(* The session lifecycle of the voice-browser-agent extension:             *)
(* CDPSession and SessionManager (src/cdp.ts), the command functions       *)
(* (src/commands.ts), the Ref Table (src/refs.ts) and the background       *)
(* service worker's dispatcher and listeners (src/background.ts).          *)
(*                                                                         *)
(* JavaScript runs one task at a time: a step of the model is the code     *)
(* that runs between two suspensions on a chrome.debugger promise.  An     *)
(* await of an async function that has already returned resumes in the     *)
(* same task (microtasks), so it does not end the step.                    *)
(*                                                                         *)
(* The browser side of chrome.debugger is modelled by what it answers:     *)
(* attach is refused when the tab is gone or a debugger is attached,       *)
(* detach is refused when none is attached, sendCommand is refused when    *)
(* none is attached, when the debugger was detached while the command was  *)
(* pending, or when the protocol rejects the command.                      *)
(***************************************************************************)
EXTENDS Naturals, Sequences, FiniteSets

\* ---------------------------------------------------------------- bounds
MaxTasks == 3          \* asynchronous calls (dispatches, listener runs) in one run
MaxSessions == 2       \* CDPSession objects constructed in one run
MaxTimeout == 2        \* largest waitForLoad timeout, in units of the 100 ms poll sleep
MaxNodes == 2          \* accessibility nodes in the list a resolution pass reads

Tasks == 1..MaxTasks
SessIds == 1..MaxSessions
\* Two targets; the lifecycle of one session is studied on Target.
Tabs == {1, 2}
Target == 1
None == 0

\* Ref ids stand for 'e0', 'e1'; a backendNodeId is a small number.
RefIds == {0, 1}
MkRef(i, b) == [id |-> i, backendNodeId |-> b]
\* The ref lists a resolution pass may produce (what the page answers).
RefLists == { <<>>, <<MkRef(0, 1)>>, <<MkRef(0, 2), MkRef(1, 1)>> }

VARIABLES
  sessions,   \* SessionManager.sessions : tab -> session object (None: no entry)
  tabId,      \* CDPSession.tabId of each object (None: not constructed yet)
  attached,   \* CDPSession.attached of each object
  refStores,  \* commands.ts refStores : tab -> RefStore contents, or NoStore
  dbg,        \* browser: a debugger is attached to the tab
  domains,    \* browser: the enable batch on the current attachment: "none", "failed", "ok"
  tabOpen,    \* browser: the tab exists
  pc,         \* where each asynchronous call is suspended
  op,         \* what each asynchronous call is
  ses,        \* the session object a call works on (its local `session`)
  step,       \* index of the protocol call a command is waiting for
  doomed,     \* the pending sendCommand was cut off by a detach
  res,        \* what the call returned or threw
  elapsed,    \* waitForLoad: Date.now() - startTime as last read, in sleep units
  frames,     \* buildTree: the call stack of a resolution pass, its `visiting` set
              \* and the value the last call returned
  hist,       \* history of the call: what it asked of the browser and what it saw
  dropped     \* history: a remove of the tab's session completed after the last table update

vars == <<sessions, tabId, attached, refStores, dbg, domains, tabOpen,
          pc, op, ses, step, doomed, res, elapsed, frames, hist, dropped>>

\* A RefStore: the refs of its Map (one per id); NoStore: the tab has no store yet.
NoStore == [made |-> FALSE, refs |-> {}]
NoOp == [kind |-> "none"]
NoRes == [state |-> "pending"]
NoFrames == [refs |-> <<>>, stack |-> <<>>, visiting |-> {}, ret |-> <<>>]
\* {success: true} / {success: false, error} as returned, or an exception thrown.
Success == [state |-> "returned", success |-> TRUE, error |-> ""]
Failure(e) == [state |-> "returned", success |-> FALSE, error |-> e]
Thrown(e) == [state |-> "thrown", success |-> FALSE, error |-> e]

\* One entry of a call's history.  att: the session's attached flag, en: the
\* browser's side ("detached", or the state of the enable batch), both at the
\* moment the entry describes; x: detail of the entry (its form depends on ev).
Ev(e, s, att, en, d) == [ev |-> e, s |-> s, att |-> att, en |-> en, x |-> d]

\* The commands modelled: two that use the Ref Table and a one-call command.
Commands == {"snapshot", "click", "evaluate"}
\* The eight command names of handleCommand's switch, and one it does not know.
CommandNames == {"navigate", "snapshot", "click", "type", "pressKey", "screenshot",
                 "evaluate", "waitForLoad"}
Unknown == "bogus"

\* (variant: click releases the button before it presses it)
MethodsReleaseFirst(cmd) ==
  IF cmd = "click"
  THEN <<"DOM.scrollIntoViewIfNeeded", "DOM.getBoxModel",
         "Input.dispatchMouseEvent mouseReleased", "Input.dispatchMouseEvent mousePressed">>
  ELSE <<"Runtime.evaluate">>
\* The protocol methods a command sends, in program order (a mouse event with
\* its type).
Methods(cmd) ==
  CASE cmd = "snapshot" -> <<"Accessibility.getFullAXTree", "DOMSnapshot.captureSnapshot">>
    [] cmd = "click"    -> <<"DOM.scrollIntoViewIfNeeded", "DOM.getBoxModel",
                             "Input.dispatchMouseEvent mousePressed",
                             "Input.dispatchMouseEvent mouseReleased">>
    [] cmd = "evaluate" -> <<"Runtime.evaluate">>
    [] cmd = "navigate" -> <<"Page.navigate", "Page.setLifecycleEventsEnabled", "Runtime.evaluate">>
    [] cmd = "waitForLoad" -> <<"Page.setLifecycleEventsEnabled", "Runtime.evaluate">>
    [] cmd = "type"     -> <<"Input.insertText">>
    [] cmd = "pressKey" -> <<"Input.dispatchKeyEvent", "Input.dispatchKeyEvent">>
    [] cmd = "screenshot" -> <<"Page.captureScreenshot">>
    [] OTHER            -> <<>>
\* The index of waitForLoad's first call among the command's calls (0: the
\* command does not wait for the load); its last call is the poll of the loop.
WaitFrom(cmd) ==
  CASE cmd = "waitForLoad" -> 1
    [] cmd = "navigate"    -> 2
    [] OTHER               -> 0

\* type's options {ref?, clear?, pressSequentially?} (the ref id itself is the
\* command's ref), and the options of a message that carries none.
Options(hasRef, clear, seq) == [hasRef |-> hasRef, clear |-> clear, pressSequentially |-> seq]
NoOptions == Options(FALSE, FALSE, FALSE)
\* The four key events of type's clear (select all, Backspace).
ClearKeys == <<"Input.dispatchKeyEvent keyDown Ctrl+a", "Input.dispatchKeyEvent keyUp Ctrl+a",
               "Input.dispatchKeyEvent keyDown Backspace", "Input.dispatchKeyEvent keyUp Backspace">>
\* The two key events of each character of the text, typed sequentially.
RECURSIVE CharKeys(_)
CharKeys(text) ==
  IF text = <<>> THEN <<>>
  ELSE <<"Input.dispatchKeyEvent keyDown char", "Input.dispatchKeyEvent keyUp char">>
         \o CharKeys(Tail(text))
\* The text input of type: key events per character, or one insertText.
TextCalls(o) == IF o.options.pressSequentially THEN CharKeys(o.text) ELSE Methods("type")
ClickPart(o) == IF o.options.hasRef THEN Methods("click") ELSE <<>>
ClearPart(o) == IF o.options.clear THEN ClearKeys ELSE <<>>
\* (variant: type clears the field before it clicks on the ref)
TypeCallsClearFirst(o) == ClearPart(o) \o ClickPart(o) \o TextCalls(o)
\* The protocol calls of type, in program order (lines 154-201).
TypeCalls(o) == ClickPart(o) \o ClearPart(o) \o TextCalls(o)
\* The protocol calls of a command, in program order.
Calls(o) == IF o.cmd = "type" THEN TypeCalls(o) ELSE Methods(o.cmd)
\* type, line 197: the i-th call is the keyUp of a character, followed by the
\* 50 ms pause.
Pauses(o, i) ==
  /\ o.cmd = "type" /\ o.options.pressSequentially
  /\ i > Len(ClickPart(o)) + Len(ClearPart(o))
  /\ (i - Len(ClickPart(o)) - Len(ClearPart(o))) % 2 = 0
\* The command looks its ref up in the Ref Table first: click, and type with a ref.
UsesRef(o) == o.cmd = "click" \/ (o.cmd = "type" /\ o.options.hasRef)

EnableBatch == <<"Page.enable", "DOM.enable", "Accessibility.enable", "Runtime.enable">>

Init ==
  /\ sessions = [tab \in Tabs |-> None]
  /\ tabId = [s \in SessIds |-> None]
  /\ attached = [s \in SessIds |-> FALSE]
  /\ refStores = [tab \in Tabs |-> NoStore]
  /\ dbg = [tab \in Tabs |-> FALSE]
  /\ domains = [tab \in Tabs |-> "none"]
  /\ tabOpen = [tab \in Tabs |-> TRUE]
  /\ pc = [t \in Tasks |-> "idle"]
  /\ op = [t \in Tasks |-> NoOp]
  /\ ses = [t \in Tasks |-> None]
  /\ step = [t \in Tasks |-> 0]
  /\ doomed = [t \in Tasks |-> FALSE]
  /\ res = [t \in Tasks |-> NoRes]
  /\ elapsed = [t \in Tasks |-> 0]
  /\ frames = [t \in Tasks |-> NoFrames]
  /\ hist = [t \in Tasks |-> <<>>]
  /\ dropped = [tab \in Tabs |-> FALSE]

\* ------------------------------------------------------------ helpers
Constructed(s) == tabId[s] # None
\* `new CDPSession(tabId)`: the next object not yet constructed.
NewSession == CHOOSE s \in SessIds : ~Constructed(s) /\ \A u \in SessIds : u < s => Constructed(u)
CanConstruct == \E s \in SessIds : ~Constructed(s)

\* A new asynchronous call takes the first free slot (slots are only names).
Free(t) == pc[t] = "idle" /\ \A u \in Tasks : u < t => pc[u] # "idle"

\* What the browser holds for the tab.
Browser(tab) == IF dbg[tab] THEN domains[tab] ELSE "detached"

\* An exception reaches the catch of handleCommand / of the command function and
\* becomes {success: false, error}; a direct caller of the session API sees it thrown.
Raise(o, e) == IF o.kind = "command" THEN Failure(e) ELSE Thrown(e)

\* The call's own variables after a step.
Task(t, p, i, r, h) ==
  /\ pc' = [pc EXCEPT ![t] = p]
  /\ step' = [step EXCEPT ![t] = i]
  /\ res' = [res EXCEPT ![t] = r]
  /\ hist' = [hist EXCEPT ![t] = h]

\* The pending sendCommands of a tab, cut off when its debugger detaches.
Pending(tab) == {u \in Tasks : pc[u] \in {"send", "enable"} /\ tabId[ses[u]] = tab}
Doom(t, tab) == [u \in Tasks |-> IF u = t THEN FALSE ELSE doomed[u] \/ u \in Pending(tab)]
NoDoom(t) == [doomed EXCEPT ![t] = FALSE]

\* (variant: every path that should keep the tables empties them)
ResetStores == refStores' = [tab \in Tabs |-> NoStore] /\ dropped' = dropped
KeepStores == UNCHANGED <<refStores, dropped>>

\* ------------------------------------------------------------ RefStore
\* RefStore.update: clear, then set each ref under its id (a later ref wins).
TableOfHandles(refs) ==
  [made |-> TRUE,
   refs |-> {[refs[k] EXCEPT !.boundingBox = <<>>] : k \in DOMAIN refs}]
TablePartial(refs) ==
  [made |-> TRUE, refs |-> IF refs = <<>> THEN {} ELSE {refs[1]}]
TableMerged(refs) ==
  [made |-> TRUE,
   refs |-> {refs[k] : k \in DOMAIN refs}
              \cup {r \in refStores[Target].refs : \A k \in DOMAIN refs : refs[k].id # r.id}]
TableOf(refs) ==
  [made |-> TRUE,
   refs |-> {refs[k] : k \in {k \in DOMAIN refs : \A j \in DOMAIN refs : refs[j].id = refs[k].id => j <= k}}]
\* getRefStore: the tab's store, created empty on first use.
GetRefStore(tab) == IF refStores[tab].made THEN refStores[tab] ELSE TableOf(<<>>)
\* RefStore.get(id): the Ref under the id, if any (a set of at most one Ref).
StoreGet(store, id) == {r \in store.refs : r.id = id}
\* RefStore.get(id) finds a ref.
StoreHasAny(store, id) == TRUE
StoreHas(store, id) == \E r \in store.refs : r.id = id

\* ------------------------------------------------------------ CDPSession
\* send, line 38: forwards only when the attached flag is set.
SendGuardAlways(att) == TRUE
SendGuard(att) == att
\* attach, line 22: asks the browser only when the flag is clear.
AttachGuardAlways(att) == TRUE
AttachGuard(att) == ~att
\* attach, line 24: the flag after the browser accepted the attach.
AttachFlagKeep(att) == att
AttachFlag(att) == TRUE
\* detach, line 28: asks the browser only when the flag is set.
DetachGuard(att) == att
\* detach, line 34: the flag after the remote detach answered (ok or not).
DetachFlagInTry(ok) == ~ok
DetachFlag(ok) == FALSE

\* The i-th protocol call of the call is made inside waitForLoad.
InWait(o, i) == o.kind = "command" /\ WaitFrom(o.cmd) > 0 /\ i >= WaitFrom(o.cmd)
\* waitForLoad, line 344: what its catch returns for an exception.
WaitCatchTimeout(e) == Failure("Timeout")
WaitCatch(e) == Failure(e)
\* navigate, lines 61-63: what navigate returns once its waitForLoad returned r.
AfterWait(r) == Success
\* waitForLoad returns r: to handleCommand, or to navigate.
WaitReturn(t, o, s, att, en, i, r, h) ==
  Task(t, "done", i, IF o.cmd = "navigate" THEN AfterWait(r) ELSE r,
       Append(h, Ev("wait", s, att, en, r)))
\* The i-th protocol call throws e: caught by waitForLoad when made inside it,
\* else by the command function.
Throw(t, o, s, att, en, i, e, h) ==
  IF InWait(o, i)
  THEN WaitReturn(t, o, s, att, en, i, WaitCatch(e), h)
  ELSE Task(t, "done", i, Raise(o, e), h)

\* send(method) as the i-th protocol call of a command.
Send(t, o, s, att, en, i, h) ==
  LET m == Calls(o)[i] IN
  IF SendGuard(att)
  THEN Task(t, "send", i, NoRes, Append(h, Ev("send", s, att, en, [m |-> m, fwd |-> TRUE])))
  ELSE Throw(t, o, s, att, en, i, "NotAttached",
             Append(h, Ev("send", s, att, en, [m |-> m, fwd |-> FALSE])))

\* waitForLoad, line 328: the loop goes on while the elapsed time is under the timeout.
LoopGuardLe(el, timeout) == el <= timeout
LoopGuard(el, timeout) == el < timeout
\* waitForLoad's loop test with el = Date.now() - startTime: the next poll, or
\* the timeout result of line 343.
LoopTest(t, o, s, att, en, i, el, h) ==
  LET h1 == Append(h, Ev("clock", s, att, en, el)) IN
  IF LoopGuard(el, o.timeout)
  THEN Send(t, o, s, att, en, i, h1)
  ELSE WaitReturn(t, o, s, att, en, i, Failure("Timeout"), h1)

\* navigate / waitForLoad resumed by the answer to the i-th protocol call.
WaitNext(t, o, s, att, en, i, h) ==
  LET w == WaitFrom(o.cmd) IN
  IF i < w
  THEN \* Page.navigate answered, with or without an errorText
       \E errorText \in BOOLEAN :
         IF errorText
         THEN Task(t, "done", i, Failure("Navigation"), Append(h, Ev("errorText", s, att, en, 0)))
         ELSE Send(t, o, s, att, en, i + 1, h)
  ELSE IF i = w
       THEN \* lifecycle events enabled: startTime is read, the loop is entered
            LoopTest(t, o, s, att, en, i + 1, elapsed[t], h)
       ELSE \* a poll answered document.readyState
            \E complete \in BOOLEAN :
              LET h1 == Append(h, Ev("poll", s, att, en, complete)) IN
              IF complete
              THEN WaitReturn(t, o, s, att, en, i, Success, h1)
              ELSE Task(t, "sleep", i, NoRes, h1)

\* enableDomains: four sends at once, awaited together.
EnableDomains(t, o, s, att, en, h) ==
  IF SendGuard(att)
  THEN Task(t, "enable", 0, NoRes, Append(h, Ev("enable.req", s, att, en, EnableBatch)))
  ELSE Task(t, "done", 0, Raise(o, "NotAttached"), Append(h, Ev("enable.refused", s, att, en, <<>>)))

\* What follows attach() in the caller: getOrCreate goes on to enableDomains.
AfterAttach(t, o, s, att, en, h) ==
  IF o.kind = "command"
  THEN EnableDomains(t, o, s, att, en, h)
  ELSE Task(t, "done", 0, Success, h)

\* attach() up to its suspension.
Attach(t, o, s, att, en, h) ==
  LET h1 == Append(h, Ev("attach", s, att, en, 0)) IN
  IF AttachGuard(att)
  THEN Task(t, "attach", 0, NoRes, Append(h1, Ev("attach.req", s, att, en, 0)))
  ELSE AfterAttach(t, o, s, att, en, Append(h1, Ev("attach.noop", s, att, en, 0)))

\* ------------------------------------------------------------ commands
\* The command function up to its first suspension, entered with session s.
CmdStart(t, o, s, att, en, h) ==
  IF o.cmd \notin CommandNames
  THEN /\ KeepStores
       /\ Task(t, "done", 0, Failure("UnknownCommand"), h)
  ELSE IF o.cmd = "navigate" /\ o.url = ""
  THEN /\ KeepStores
       /\ Task(t, "done", 0, Raise(o, "EmptyUrl"), Append(h, Ev("normalizeUrl", s, att, en, 0)))
  ELSE IF UsesRef(o)
  THEN LET store == GetRefStore(o.tab)
           found == StoreHas(store, o.ref)
           h1 == Append(h, Ev("lookup", s, att, en,
                              [found |-> found, dropped |-> dropped[o.tab], table |-> store.refs]))
       IN /\ refStores' = [refStores EXCEPT ![o.tab] = store]
          /\ dropped' = dropped
          /\ IF found
             THEN Send(t, o, s, att, en, 1, h1)
             ELSE Task(t, "done", 0, Failure("RefNotFound"), h1)
  ELSE IF Calls(o) = <<>>
  THEN \* type of an empty text, typed sequentially: nothing to send
       /\ KeepStores
       /\ Task(t, "done", 0, Success, h)
  ELSE /\ KeepStores
       /\ Send(t, o, s, att, en, 1, h)

\* The command function resumed by the answer to its i-th protocol call.
CmdNext(t, o, s, att, en, i, h) ==
  IF WaitFrom(o.cmd) > 0
  THEN /\ KeepStores
       /\ WaitNext(t, o, s, att, en, i, h)
  ELSE IF Pauses(o, i)
  THEN /\ KeepStores
       /\ Task(t, "pause", i, NoRes, h)
  ELSE IF i < Len(Calls(o))
  THEN /\ KeepStores
       /\ Send(t, o, s, att, en, i + 1, h)
  ELSE IF o.cmd = "snapshot"
       THEN \E refs \in RefLists :
              /\ refStores' = [refStores EXCEPT ![o.tab] = TableOf(refs)]
              /\ dropped' = [dropped EXCEPT ![o.tab] = FALSE]
              /\ Task(t, "done", i, Success, Append(h, Ev("update", s, att, en, refs)))
       ELSE IF o.cmd = "evaluate"
       THEN \* Runtime.evaluate answered, with or without exceptionDetails
            /\ KeepStores
            /\ \E exception \in BOOLEAN :
                 IF exception
                 THEN Task(t, "done", i, Failure("Exception"), Append(h, Ev("exception", s, att, en, 0)))
                 ELSE Task(t, "done", i, Success, h)
       ELSE /\ KeepStores
            /\ Task(t, "done", i, Success, h)

\* ------------------------------------------------------------ SessionManager
\* getOrCreate, line 66: construct when the registry has no entry.
NeedsCreateAlways(found) == TRUE
NeedsCreate(found) == found = None
\* getOrCreate, line 70: attach and enable when the flag is clear.
NeedsAttachNever(att) == FALSE
NeedsAttachAlways(att) == TRUE
NeedsAttach(att) == ~att

\* What follows detach() in the caller: remove goes on to sessions.delete(tabId).
AfterDetachKeep(t, o, s, flag, h) ==
  /\ UNCHANGED <<sessions, dropped>>
  /\ Task(t, "done", 0, Success,
          IF o.kind = "remove" THEN Append(h, Ev("removed", s, flag, "detached", sessions'[o.tab])) ELSE h)
\* (variant: remove empties the whole registry)
AfterDetachAll(t, o, s, flag, h) ==
  IF o.kind = "remove"
  THEN /\ sessions' = [tab \in Tabs |-> None]
       /\ dropped' = [dropped EXCEPT ![o.tab] = TRUE]
       /\ Task(t, "done", 0, Success, Append(h, Ev("removed", s, flag, "detached", sessions'[o.tab])))
  ELSE /\ UNCHANGED <<sessions, dropped>>
       /\ Task(t, "done", 0, Success, h)
AfterDetach(t, o, s, flag, h) ==
  IF o.kind = "remove"
  THEN /\ sessions' = [sessions EXCEPT ![o.tab] = None]
       /\ dropped' = [dropped EXCEPT ![o.tab] = TRUE]
       /\ Task(t, "done", 0, Success, Append(h, Ev("removed", s, flag, "detached", sessions'[o.tab])))
  ELSE /\ UNCHANGED <<sessions, dropped>>
       /\ Task(t, "done", 0, Success, h)

\* detach() up to its suspension.
Detach(t, o, s, h) ==
  LET att == attached[s]
      en == Browser(tabId[s])
      h1 == Append(h, Ev("detach", s, att, en, 0))
  IN IF DetachGuard(att)
     THEN /\ UNCHANGED <<sessions, dropped>>
          /\ Task(t, "detach", 0, NoRes, Append(h1, Ev("detach.req", s, att, en, 0)))
     ELSE AfterDetach(t, o, s, att, Append(h1, Ev("detach.noop", s, att, en, 0)))

\* History: the debugger.onDetach listener has run remove(tab) to completion and
\* no listener's remove for the tab is waiting or running.
DetachProcessed(tab) ==
  /\ \E u \in Tasks : /\ op[u].kind = "remove" /\ op[u].tab = tab
                       /\ op[u].via = "onDetach" /\ pc[u] = "done"
  /\ \A u \in Tasks : (op[u].kind = "remove" /\ op[u].tab = tab) => pc[u] = "done"

\* handleCommand(tabId, command, params) -> getOrCreate, up to the first suspension.
HandleCommand(t, o) ==
  /\ Free(t)
  /\ LET tab == o.tab
         found == sessions[tab]
         fresh == NeedsCreate(found)
     IN /\ fresh => CanConstruct
        /\ LET s == IF fresh THEN NewSession ELSE found
               att == attached[s]
               en == Browser(tab)
               h0 == <<Ev("getOrCreate", s, att, en,
                          [fresh |-> fresh, dropped |-> dropped[tab], detached |-> DetachProcessed(tab)])>>
           IN /\ op' = [op EXCEPT ![t] = o]
              /\ ses' = [ses EXCEPT ![t] = s]
              /\ sessions' = [sessions EXCEPT ![tab] = s]
              /\ tabId' = [tabId EXCEPT ![s] = tab]
              /\ doomed' = NoDoom(t)
              /\ IF NeedsAttach(att)
                 THEN /\ KeepStores
                      /\ Attach(t, o, s, att, en, h0)
                 ELSE CmdStart(t, o, s, att, en, Append(h0, Ev("return", s, att, en, 0)))
  /\ UNCHANGED <<attached, dbg, domains, tabOpen, elapsed, frames>>

\* A command message: its name and its params (a ref id, a url, a timeout).
Command(tab, cmd, r, url, timeout) ==
  [kind |-> "command", tab |-> tab, cmd |-> cmd, ref |-> r, url |-> url, timeout |-> timeout,
   options |-> NoOptions, text |-> <<"a">>]
\* A command with a ref id (click), or with no parameter the model reads;
\* navigate's waitForLoad runs with the default timeout.
Dispatch(t, tab, cmd, r) == HandleCommand(t, Command(tab, cmd, r, "a.com", MaxTimeout))
\* navigate with a url ("": blank after trim).
DispatchNavigate(t, tab, url) == HandleCommand(t, Command(tab, "navigate", 0, url, MaxTimeout))
\* waitForLoad with a timeout.
DispatchWait(t, tab, timeout) == HandleCommand(t, Command(tab, "waitForLoad", 0, "", timeout))

\* type with its text and options; r is options.ref when hasRef is set.
DispatchType(t, tab, r, options, text) ==
  HandleCommand(t, [Command(tab, "type", r, "", MaxTimeout) EXCEPT !.options = options, !.text = text])

\* The browser answers chrome.debugger.attach.
AttachResp(t) ==
  /\ pc[t] = "attach"
  /\ LET s == ses[t]
         tab == tabId[s]
         o == op[t]
         ok == tabOpen[tab] /\ ~dbg[tab]
     IN IF ok
        THEN /\ dbg' = [dbg EXCEPT ![tab] = TRUE]
             /\ domains' = [domains EXCEPT ![tab] = "none"]
             /\ attached' = [attached EXCEPT ![s] = AttachFlag(attached[s])]
             /\ AfterAttach(t, o, s, attached'[s], "none",
                            Append(hist[t], Ev("attach.ok", s, attached'[s], "none", 0)))
        ELSE /\ UNCHANGED <<dbg, domains, attached>>
             /\ Task(t, "done", 0, Raise(o, "Connection"),
                     Append(hist[t], Ev("attach.fail", s, attached[s], Browser(tab), 0)))
  /\ doomed' = NoDoom(t)
  /\ UNCHANGED <<sessions, tabId, refStores, dropped, tabOpen, op, ses, elapsed, frames>>

\* The browser answers the enable batch: all four accepted, or one refused.
EnableResp(t) ==
  /\ pc[t] = "enable"
  /\ \E accept \in BOOLEAN :
       LET s == ses[t]
           tab == tabId[s]
           o == op[t]
           ok == dbg[tab] /\ ~doomed[t] /\ accept
       IN IF ok
          THEN /\ domains' = [domains EXCEPT ![tab] = "ok"]
               /\ LET h == Append(hist[t], Ev("enable.ok", s, attached[s], "ok", 0))
                  IN IF o.kind = "command"
                     THEN CmdStart(t, o, s, attached[s], "ok", Append(h, Ev("return", s, attached[s], "ok", 0)))
                     ELSE /\ KeepStores
                          /\ Task(t, "done", 0, Success, h)
          ELSE /\ domains' = [domains EXCEPT ![tab] =
                                IF dbg[tab] /\ ~doomed[t] /\ @ = "none" THEN "failed" ELSE @]
               /\ KeepStores
               /\ Task(t, "done", 0, Raise(o, "Protocol"),
                       Append(hist[t], Ev("enable.fail", s, attached[s], Browser(tab), 0)))
  /\ doomed' = NoDoom(t)
  /\ UNCHANGED <<sessions, tabId, attached, dbg, tabOpen, op, ses, elapsed, frames>>

\* The browser answers a command's sendCommand.
SendResp(t) ==
  /\ pc[t] = "send"
  /\ \E accept \in BOOLEAN :
       LET s == ses[t]
           tab == tabId[s]
           o == op[t]
           ok == dbg[tab] /\ ~doomed[t] /\ accept
       IN IF ok
          THEN IF o.kind = "command"
               THEN CmdNext(t, o, s, attached[s], Browser(tab), step[t], hist[t])
               ELSE /\ KeepStores
                    /\ Task(t, "done", 0, Success, hist[t])
          ELSE /\ KeepStores
               /\ Throw(t, o, s, attached[s], Browser(tab), step[t], "Protocol",
                        Append(hist[t], Ev("send.fail", s, attached[s], Browser(tab), 0)))
  /\ doomed' = NoDoom(t)
  /\ UNCHANGED <<sessions, tabId, attached, dbg, domains, tabOpen, op, ses, elapsed, frames>>

\* The 100 ms sleep of waitForLoad's loop ends (after one sleep unit, or more).
Wake(t) ==
  /\ pc[t] = "sleep"
  /\ \E d \in 1..2 :
       LET s == ses[t]
           el == IF elapsed[t] + d > MaxTimeout THEN MaxTimeout + 1 ELSE elapsed[t] + d
       IN /\ elapsed' = [elapsed EXCEPT ![t] = el]
          /\ LoopTest(t, op[t], s, attached[s], Browser(tabId[s]), step[t], el, hist[t])
  /\ doomed' = NoDoom(t)
  /\ UNCHANGED <<sessions, tabId, attached, refStores, dropped, dbg, domains, tabOpen, op, ses,
                 frames>>

\* The 50 ms pause after a character typed sequentially ends.
CharDelay(t) ==
  /\ pc[t] = "pause"
  /\ LET s == ses[t]
         o == op[t]
     IN IF step[t] < Len(Calls(o))
        THEN Send(t, o, s, attached[s], Browser(tabId[s]), step[t] + 1, hist[t])
        ELSE Task(t, "done", step[t], Success, hist[t])
  /\ doomed' = NoDoom(t)
  /\ UNCHANGED <<sessions, tabId, attached, refStores, dropped, dbg, domains, tabOpen, op, ses,
                 elapsed, frames>>

\* remove(tabId) up to its first suspension.
RemoveStart(t, o) ==
  LET s == sessions[o.tab] IN
  /\ op' = [op EXCEPT ![t] = o]
  /\ ses' = [ses EXCEPT ![t] = s]
  /\ doomed' = NoDoom(t)
  /\ IF s = None
     THEN /\ UNCHANGED <<sessions, dropped>>
          /\ Task(t, "done", 0, Success, <<Ev("remove", None, FALSE, Browser(o.tab), "unknown")>>)
     ELSE Detach(t, o, s, <<Ev("remove", s, attached[s], Browser(o.tab), "known")>>)
  /\ UNCHANGED <<tabId, attached, refStores, dbg, domains, tabOpen, elapsed, frames>>

\* A listener (tabs.onRemoved, debugger.onDetach) runs: remove(tabId).
Deliver(t) ==
  /\ pc[t] = "event"
  /\ RemoveStart(t, op[t])

\* The browser answers chrome.debugger.detach.
DetachResp(t) ==
  /\ pc[t] = "detach"
  /\ LET s == ses[t]
         tab == tabId[s]
         ok == dbg[tab]
         flag == DetachFlag(ok)
     IN /\ dbg' = [dbg EXCEPT ![tab] = FALSE]
        /\ domains' = [domains EXCEPT ![tab] = "none"]
        /\ doomed' = IF ok THEN Doom(t, tab) ELSE NoDoom(t)
        /\ attached' = [attached EXCEPT ![s] = flag]
        /\ AfterDetach(t, op[t], s, flag,
                       Append(hist[t], Ev(IF ok THEN "detach.ok" ELSE "detach.fail", s, flag, "detached", 0)))
  /\ UNCHANGED <<tabId, refStores, tabOpen, op, ses, elapsed, frames>>

\* ------------------------------------------------------------ the browser
\* The browser ends the debugging session (infobar cancelled, DevTools opened,
\* tab closing) and fires debugger.onDetach.
BrowserDetach(t, tab) ==
  /\ Free(t)
  /\ dbg[tab]
  /\ dbg' = [dbg EXCEPT ![tab] = FALSE]
  /\ domains' = [domains EXCEPT ![tab] = "none"]
  /\ doomed' = Doom(t, tab)
  /\ pc' = [pc EXCEPT ![t] = "event"]
  /\ op' = [op EXCEPT ![t] = [kind |-> "remove", tab |-> tab, via |-> "onDetach"]]
  /\ UNCHANGED <<sessions, tabId, attached, refStores, dropped, tabOpen, ses, step, res, elapsed, frames, hist>>

\* The tab is closed (its debugger, if any, was detached first) and
\* tabs.onRemoved fires.
TabClose(t, tab) ==
  /\ Free(t)
  /\ tabOpen[tab]
  /\ ~dbg[tab]
  /\ tabOpen' = [tabOpen EXCEPT ![tab] = FALSE]
  /\ pc' = [pc EXCEPT ![t] = "event"]
  /\ op' = [op EXCEPT ![t] = [kind |-> "remove", tab |-> tab, via |-> "onRemoved"]]
  /\ UNCHANGED <<sessions, tabId, attached, refStores, dropped, dbg, domains, ses, step, doomed, res,
                 elapsed, frames, hist>>

\* ------------------------------------------------------------ direct callers
\* sessionManager.remove(tabId) called directly.
CallRemove(t, tab) ==
  /\ Free(t)
  /\ RemoveStart(t, [kind |-> "remove", tab |-> tab, via |-> "direct"])

\* session.attach() called on a session object.
CallAttach(t, s) ==
  /\ Free(t)
  /\ Constructed(s)
  /\ op' = [op EXCEPT ![t] = [kind |-> "attach", tab |-> tabId[s]]]
  /\ ses' = [ses EXCEPT ![t] = s]
  /\ doomed' = NoDoom(t)
  /\ Attach(t, op'[t], s, attached[s], Browser(tabId[s]), <<>>)
  /\ UNCHANGED <<sessions, tabId, attached, refStores, dropped, dbg, domains, tabOpen, elapsed, frames>>

\* session.detach() called on a session object.
CallDetach(t, s) ==
  /\ Free(t)
  /\ Constructed(s)
  /\ op' = [op EXCEPT ![t] = [kind |-> "detach", tab |-> tabId[s]]]
  /\ ses' = [ses EXCEPT ![t] = s]
  /\ doomed' = NoDoom(t)
  /\ Detach(t, op'[t], s, <<>>)
  /\ UNCHANGED <<tabId, attached, refStores, dbg, domains, tabOpen, elapsed, frames>>

\* session.send('Runtime.evaluate') called on a session object.
CallSend(t, s) ==
  /\ Free(t)
  /\ Constructed(s)
  /\ op' = [op EXCEPT ![t] = [kind |-> "send", tab |-> tabId[s], cmd |-> "evaluate"]]
  /\ ses' = [ses EXCEPT ![t] = s]
  /\ doomed' = NoDoom(t)
  /\ Send(t, op'[t], s, attached[s], Browser(tabId[s]), 1, <<>>)
  /\ UNCHANGED <<sessions, tabId, attached, refStores, dropped, dbg, domains, tabOpen, elapsed, frames>>

\* ------------------------------------------------------------ resolution pass
\* ACTIONABLE_ROLES (types.ts).
ActionableRoles ==
  {"button", "link", "textbox", "checkbox", "radio", "combobox", "menuitem",
   "menuitemcheckbox", "menuitemradio", "tab", "switch", "slider", "spinbutton",
   "searchbox", "option", "listitem"}
\* The role values of the nodes read ("": the node has no role).
Roles == {"button", "LINK", "generic", ""}
\* String.toLowerCase on the role values.
Lower(role) ==
  CASE role = "LINK" -> "link"
    [] role = "RootWebArea" -> "rootwebarea"
    [] role = "GenericContainer" -> "genericcontainer"
    [] OTHER -> role
\* An accessibility node: nodeId is its position in the list; backendDOMNodeId
\* 0 stands for an absent one (both are falsy at line 214), parentId 0 for no
\* parent, name "" for no name.  Here the first node is the parent of the others.
AXNodes(i) ==
  [nodeId : {i}, parentId : {IF i = 1 THEN 0 ELSE 1}, childIds : {<<>>},
   ignored : BOOLEAN, role : Roles, name : {""}, backendDOMNodeId : 0..2]
\* The node lists Accessibility.getFullAXTree may answer.
AXLists ==
  UNION {{nodes \in [1..n -> UNION {AXNodes(i) : i \in 1..n}] :
            \A i \in 1..n : nodes[i].nodeId = i} : n \in 0..MaxNodes}

\* A rectangle of layout.bounds, and a document of a layout snapshot:
\* nodes.backendNodeId, layout.nodeIndex and layout.bounds as parallel arrays.
\* Positions count from 1 here (from 0 in the code), 0 standing for indexOf's -1.
Rect(w, h) == <<0, 0, w, h>>
Doc(ids, idx, bounds) == [backendNodeId |-> ids, nodeIndex |-> idx, bounds |-> bounds]
\* The layout snapshots DOMSnapshot.captureSnapshot may answer (documents).
Snapshots ==
  { <<>>,
    <<Doc(<<1>>, <<1>>, <<Rect(1, 1)>>)>>,
    <<Doc(<<1, 2>>, <<1, 2>>, <<Rect(1, 1), Rect(2, 1)>>)>>,
    <<Doc(<<2, 1>>, <<2>>, <<Rect(1, 1)>>)>>,
    <<Doc(<<1, 2>>, <<1, 2>>, <<Rect(0, 1), Rect(1, 0)>>)>>,
    <<Doc(<<1, 2>>, <<2, 1>>, <<Rect(1, 1), <<0, 0, 1>>>>)>>,
    <<Doc(<<1, 2>>, <<1, 2>>, <<Rect(1, 1)>>)>>,
    <<Doc(<<1>>, <<>>, <<>>), Doc(<<1, 2>>, <<1, 2>>, <<Rect(1, 1), Rect(1, 1)>>)>>,
    <<Doc(<<1>>, <<1>>, <<Rect(0, 0)>>), Doc(<<1>>, <<1>>, <<Rect(1, 1)>>)>>,
    <<Doc(<<2>>, <<1>>, <<Rect(1, 1)>>), Doc(<<1>>, <<1>>, <<Rect(3, 1)>>)>>,
    <<Doc(<<1, 1, 2>>, <<2, 1, 3>>, <<Rect(0, 1), Rect(1, 1), Rect(1, 1)>>)>> }

\* Array.indexOf: the first position of v, scanning from position i.
RECURSIVE IndexFrom(_, _, _)
IndexFrom(seq, v, i) ==
  IF i > Len(seq) THEN 0
  ELSE IF seq[i] = v THEN i ELSE IndexFrom(seq, v, i + 1)
IndexOf(seq, v) == IndexFrom(seq, v, 1)

\* generateRefId: 'e' followed by the index.
GenerateRefIdFromOne(index) == <<"e", index + 1>>
GenerateRefId(index) == <<"e", index>>

\* A bounding box {x, y, width, height} is a 4-tuple; Null is no box.
Null == <<>>
\* extractBoundingBox: the documents are tried in order, from document d on.
RECURSIVE ExtractFrom(_, _, _)
ExtractFrom(backendNodeId, documents, d) ==
  IF d > Len(documents) THEN Null
  ELSE LET doc == documents[d]
           nodeIndex == IndexOf(doc.backendNodeId, backendNodeId)
           layoutIdx == IndexOf(doc.nodeIndex, nodeIndex)
       IN IF nodeIndex = 0 THEN ExtractFrom(backendNodeId, documents, d + 1)
          ELSE IF layoutIdx = 0 THEN ExtractFrom(backendNodeId, documents, d + 1)
          ELSE IF layoutIdx <= Len(doc.bounds) /\ Len(doc.bounds[layoutIdx]) >= 4
               THEN SubSeq(doc.bounds[layoutIdx], 1, 4)
               ELSE ExtractFrom(backendNodeId, documents, d + 1)
ExtractBoundingBox(backendNodeId, snapshot) == ExtractFrom(backendNodeId, snapshot, 1)

\* isVisible: a box with non-zero dimensions.
IsVisibleWidthOnly(box) == box # Null /\ box[3] > 0
IsVisible(box) == box # Null /\ box[3] > 0 /\ box[4] > 0

\* buildRefs, lines 205-232: the loop over the nodes, at node i with `index`
\* refs pushed so far.
RECURSIVE BuildLoop(_, _, _, _, _)
BuildLoop(nodes, snapshot, i, index, refs) ==
  IF i > Len(nodes) THEN refs
  ELSE LET node == nodes[i]
           boundingBox == ExtractBoundingBox(node.backendDOMNodeId, snapshot)
           ref == [id |-> GenerateRefId(index),
                   backendNodeId |-> node.backendDOMNodeId,
                   axNodeId |-> node.nodeId,
                   role |-> IF node.role = "" THEN "unknown" ELSE node.role,
                   boundingBox |-> boundingBox]
       IN IF node.ignored THEN BuildLoop(nodes, snapshot, i + 1, index, refs)
          ELSE IF Lower(node.role) \notin ActionableRoles
               THEN BuildLoop(nodes, snapshot, i + 1, index, refs)
          ELSE IF node.backendDOMNodeId = 0
               THEN BuildLoop(nodes, snapshot, i + 1, index, refs)
          ELSE IF ~IsVisible(boundingBox)
               THEN BuildLoop(nodes, snapshot, i + 1, index, refs)
          ELSE BuildLoop(nodes, snapshot, i + 1, index + 1, Append(refs, ref))
BuildRefs(nodes, snapshot) == BuildLoop(nodes, snapshot, 1, 0, <<>>)

\* ------------------------------------------------------------ display tree
\* nodeMap (lines 78-83): the node registered under an id, the last of the list.
HasNode(nodes, id) == \E i \in DOMAIN nodes : nodes[i].nodeId = id
NodeOf(nodes, id) ==
  nodes[CHOOSE i \in DOMAIN nodes :
          nodes[i].nodeId = id /\ \A j \in DOMAIN nodes : nodes[j].nodeId = id => j <= i]
\* childrenByParent.get(id) (lines 85-93): the ids of the nodes whose parentId
\* is id, in list order; no entry when there is none.
RECURSIVE ChildrenFrom(_, _, _)
ChildrenFrom(nodes, id, i) ==
  IF i > Len(nodes) THEN <<>>
  ELSE IF nodes[i].parentId # 0 /\ nodes[i].parentId = id
       THEN <<nodes[i].nodeId>> \o ChildrenFrom(nodes, id, i + 1)
       ELSE ChildrenFrom(nodes, id, i + 1)
ChildrenByParent(nodes, id) == ChildrenFrom(nodes, id, 1)
\* getChildIds.
GetChildIds(nodes, id) ==
  IF ChildrenByParent(nodes, id) # <<>> THEN ChildrenByParent(nodes, id)
  ELSE IF HasNode(nodes, id) THEN NodeOf(nodes, id).childIds
  ELSE <<>>
\* Array.find: the first position whose node satisfies the test, 0 when none.
IsRootWebArea(node) == Lower(node.role) = "rootwebarea"
HasNoParent(node) == node.parentId = 0
\* The two tests of lines 137-138, by name.
Satisfies(test, node) ==
  IF test = "rootwebarea" THEN IsRootWebArea(node) ELSE HasNoParent(node)
RECURSIVE FindFrom(_, _, _)
FindFrom(nodes, test, i) ==
  IF i > Len(nodes) THEN 0
  ELSE IF Satisfies(test, nodes[i]) THEN i ELSE FindFrom(nodes, test, i + 1)
\* The display root (lines 136-139), of a list that is not empty.
Root(nodes) ==
  IF FindFrom(nodes, "rootwebarea", 1) # 0 THEN nodes[FindFrom(nodes, "rootwebarea", 1)]
  ELSE IF FindFrom(nodes, "noparent", 1) # 0 THEN nodes[FindFrom(nodes, "noparent", 1)]
  ELSE nodes[1]
\* refsByAxId.get(id) (lines 168-171): the last Ref of the node, as a list of
\* at most one Ref.
RECURSIVE RefFrom(_, _, _)
RefFrom(refs, id, k) ==
  IF k = 0 THEN <<>>
  ELSE IF refs[k].axNodeId # 0 /\ refs[k].axNodeId = id THEN <<refs[k]>>
  ELSE RefFrom(refs, id, k - 1)
RefsByAxId(refs, id) == RefFrom(refs, id, Len(refs))

\* A TreeNode; `ref` is a list of at most one Ref.
TreeNode(node, ref, children) == [node |-> node, ref |-> ref, children |-> children]
\* (variant: no role is structural noise)
SkipRolesNone == {}
\* SKIP_ROLES.
SkipRoles == {"none", "generic", "genericcontainer"}
\* One line of the tree text: indent, role, name and ref tag (the id, or none).
Line(depth, role, name, ref) ==
  <<depth, role, name, IF ref = <<>> THEN <<>> ELSE ref[1].id>>
\* renderTree: the lines of the text, in order ('' when there is none).
RECURSIVE RenderTree(_, _)
RECURSIVE RenderChildren(_, _, _)
RenderTree(treeNode, depth) ==
  LET role == IF treeNode.node.role = "" THEN "unknown" ELSE treeNode.node.role
      skip == Lower(role) \in SkipRoles /\ treeNode.ref = <<>>
      childDepth == IF skip THEN depth ELSE depth + 1
  IN (IF skip THEN <<>> ELSE <<Line(depth, role, treeNode.node.name, treeNode.ref)>>)
       \o RenderChildren(treeNode.children, 1, childDepth)
RenderChildren(children, k, depth) ==
  IF k > Len(children) THEN <<>>
  ELSE RenderTree(children[k], depth) \o RenderChildren(children, k + 1, depth)
\* The text of formatAriaTree for no root.
EmptyText == <<>>
EmptyPage == <<Line(0, "Empty page", "", <<>>)>>

\* The frames of buildTree's recursion.  toTreeNode is at its entry or in its
\* call of collectDescendants; collectDescendants is at the head of its loop on
\* child i, in its call of itself for an ignored child ("splice"), or in its
\* call of toTreeNode ("child").
ToTreeNodeFrame(id) == [fn |-> "toTreeNode", id |-> id, at |-> "entry", i |-> 0, results |-> <<>>]
CollectFrame(id) == [fn |-> "collectDescendants", id |-> id, at |-> "loop", i |-> 1, results |-> <<>>]
\* The call stack holds no more frames than this; a call beyond it throws
\* RangeError.  A recursion that visits each node at most once on a path
\* stays below it.
StackLimit(nodes) == 2 * Len(nodes) + 2
\* visiting.has(id).
VisitingNothing(visiting, id) == FALSE
VisitingHas(visiting, id) == id \in visiting

\* buildRefs, called by snapshot for Target on an attached session, once both
\* fetches were answered: a resolution pass over the nodes and the layout
\* snapshot of the page.  The Refs are built, then formatAriaTree calls
\* buildTree (lines 168-173, 76, 136-141).
CallBuildRefs(t, nodes, snapshot) ==
  /\ Free(t)
  /\ op' = [op EXCEPT ![t] = [kind |-> "buildRefs", tab |-> Target,
                               nodes |-> nodes, snapshot |-> snapshot]]
  /\ pc' = [pc EXCEPT ![t] = "tree"]
  /\ frames' = [frames EXCEPT ![t] =
       [refs |-> BuildRefs(nodes, snapshot),
        stack |-> IF nodes = <<>> THEN <<>> ELSE <<ToTreeNodeFrame(Root(nodes).nodeId)>>,
        visiting |-> {},
        ret |-> <<>>]]
  /\ UNCHANGED <<sessions, tabId, attached, refStores, dbg, domains, tabOpen, ses, step,
                 doomed, res, elapsed, hist, dropped>>

\* The frames after the top one returns v / is replaced by f / calls g from f.
Return(f, v, visiting) ==
  [f EXCEPT !.stack = SubSeq(f.stack, 1, Len(f.stack) - 1), !.ret = v, !.visiting = visiting]
Goto(f, top, visiting) ==
  [f EXCEPT !.stack = [f.stack EXCEPT ![Len(f.stack)] = top], !.visiting = visiting]
Call(f, top, g, visiting) ==
  [f EXCEPT !.stack = Append([f.stack EXCEPT ![Len(f.stack)] = top], g), !.visiting = visiting]

\* (variant: toTreeNode keeps every node that is not ignored)
HasNameAlways(node) == TRUE
\* toTreeNode, line 131: axNode.name?.value is truthy.
HasName(node) == node.name # ""
\* toTreeNode (lines 118-134), one step of the frame on top.
ToTreeNodeStep(nodes, f) ==
  LET top == f.stack[Len(f.stack)]
      axNode == NodeOf(nodes, top.id)
      children == f.ret
      ref == RefsByAxId(f.refs, top.id)
  IN IF top.at = "entry"
     THEN IF axNode.ignored THEN Return(f, <<>>, f.visiting)
          ELSE IF VisitingHas(f.visiting, top.id) THEN Return(f, <<>>, f.visiting)
          ELSE Call(f, [top EXCEPT !.at = "call"], CollectFrame(top.id),
                    f.visiting \cup {top.id})
     ELSE IF ref # <<>> \/ Len(children) > 0
          THEN Return(f, <<TreeNode(axNode, ref, children)>>, f.visiting \ {top.id})
          ELSE IF HasName(axNode)
               THEN Return(f, <<TreeNode(axNode, ref, children)>>, f.visiting \ {top.id})
               ELSE Return(f, <<>>, f.visiting \ {top.id})

\* collectDescendants (lines 99-116), one step of the frame on top.
CollectStep(nodes, f) ==
  LET top == f.stack[Len(f.stack)]
      childIds == GetChildIds(nodes, top.id)
      childId == childIds[top.i]
      next == [top EXCEPT !.at = "loop", !.i = top.i + 1]
  IN IF top.at = "loop"
     THEN IF top.i > Len(childIds) THEN Return(f, top.results, f.visiting)
          ELSE IF ~HasNode(nodes, childId) THEN Goto(f, next, f.visiting)
          ELSE IF NodeOf(nodes, childId).ignored
               THEN IF ~VisitingHas(f.visiting, childId)
                    THEN Call(f, [top EXCEPT !.at = "splice"], CollectFrame(childId),
                              f.visiting \cup {childId})
                    ELSE Goto(f, next, f.visiting)
               ELSE Call(f, [top EXCEPT !.at = "child"], ToTreeNodeFrame(childId), f.visiting)
     ELSE IF top.at = "splice"
          THEN Goto(f, [next EXCEPT !.results = top.results \o f.ret], f.visiting \ {childId})
          ELSE Goto(f, [next EXCEPT !.results = top.results \o f.ret], f.visiting)

\* One step of buildTree's recursion; when the first call has returned,
\* formatAriaTree renders the tree (lines 174-175), buildRefs returns
\* {refs, tree} (line 235) and snapshot updates the tab's RefStore and returns
\* them (commands.ts lines 78-88).  A RangeError is thrown to the caller.
TreeStep(t) ==
  /\ pc[t] = "tree"
  /\ LET f == frames[t]
         nodes == op[t].nodes
         g == IF f.stack[Len(f.stack)].fn = "toTreeNode"
              THEN ToTreeNodeStep(nodes, f) ELSE CollectStep(nodes, f)
     IN IF f.stack = <<>>
        THEN /\ pc' = [pc EXCEPT ![t] = "done"]
             /\ res' = [res EXCEPT ![t] =
                  [state |-> "returned", success |-> TRUE, error |-> "",
                   refs |-> f.refs,
                   tree |-> IF f.ret = <<>> THEN EmptyPage ELSE RenderTree(f.ret[1], 0)]]
             /\ refStores' = [refStores EXCEPT ![op[t].tab] = TableOf(f.refs)]
             /\ dropped' = [dropped EXCEPT ![op[t].tab] = FALSE]
             /\ UNCHANGED frames
        ELSE IF Len(g.stack) > StackLimit(nodes)
        THEN /\ pc' = [pc EXCEPT ![t] = "done"]
             /\ res' = [res EXCEPT ![t] = Thrown("RangeError")]
             /\ frames' = [frames EXCEPT ![t] = NoFrames]
             /\ KeepStores
        ELSE /\ frames' = [frames EXCEPT ![t] = g]
             /\ UNCHANGED <<pc, res>>
             /\ KeepStores
  /\ UNCHANGED <<sessions, tabId, attached, dbg, domains, tabOpen, op, ses, step,
                 doomed, elapsed, hist>>

\* ------------------------------------------------------------ pages with structure
\* What a node of a structured page is: ignored or not, its role and its name.
Profiles ==
  { [ignored |-> FALSE, role |-> "RootWebArea", name |-> ""],
    [ignored |-> TRUE,  role |-> "RootWebArea", name |-> ""],
    [ignored |-> FALSE, role |-> "button",      name |-> ""],
    [ignored |-> TRUE,  role |-> "button",      name |-> ""],
    [ignored |-> FALSE, role |-> "generic",     name |-> ""],
    [ignored |-> FALSE, role |-> "GenericContainer", name |-> ""],
    [ignored |-> FALSE, role |-> "heading",     name |-> "x"] }
\* The structures of the pages: the parentId of each node, then its childIds
\* (node ids are positions, 0 is no parent, an id beyond the list is unknown).
Shape(parents, kids) == [parentId |-> parents, childIds |-> kids]
TreeShapes ==
  { Shape(<<0>>, << <<>> >>),
    Shape(<<1>>, << <<>> >>),
    Shape(<<0>>, << <<1>> >>),
    Shape(<<0, 1>>, << <<>>, <<>> >>),
    Shape(<<0, 0>>, << <<2>>, <<>> >>),
    Shape(<<2, 1>>, << <<>>, <<>> >>),
    Shape(<<0, 2>>, << <<2>>, <<>> >>),
    Shape(<<0, 0>>, << <<2>>, <<1>> >>),
    Shape(<<0, 1>>, << <<>>, <<3>> >>),
    Shape(<<0, 1, 2>>, << <<>>, <<>>, <<>> >>),
    Shape(<<0, 1, 1>>, << <<>>, <<>>, <<>> >>),
    Shape(<<2, 3, 0>>, << <<>>, <<>>, <<>> >>),
    Shape(<<0, 0, 0>>, << <<2, 3>>, <<>>, <<>> >>),
    Shape(<<0, 1, 1>>, << <<3>>, <<>>, <<>> >>),
    Shape(<<0, 0, 0>>, << <<2, 3>>, <<3>>, <<>> >>),
    Shape(<<0, 3, 2>>, << <<2>>, <<>>, <<>> >>),
    Shape(<<0, 3, 2>>, << <<2, 3>>, <<>>, <<>> >>),
    Shape(<<3, 1, 2>>, << <<>>, <<>>, <<>> >>),
    Shape(<<0, 0, 0>>, << <<2>>, <<3>>, <<2>> >>),
    Shape(<<0, 0, 0>>, << <<2, 3>>, <<3>>, <<2>> >>),
    Shape(<<0, 1, 3>>, << <<>>, <<3>>, <<>> >>) }
\* The node lists of the structured pages; every node has a backing-DOM identity.
TreeLists ==
  UNION {{[i \in DOMAIN sh.parentId |->
             [nodeId |-> i, parentId |-> sh.parentId[i], childIds |-> sh.childIds[i],
              ignored |-> a[i].ignored, role |-> a[i].role, name |-> a[i].name,
              backendDOMNodeId |-> i]] :
            a \in [DOMAIN sh.parentId -> Profiles]} : sh \in TreeShapes}
\* Their layout snapshot: every identity has a rectangle of positive size.
PageLayout == <<Doc(<<1, 2, 3>>, <<1, 2, 3>>, <<Rect(1, 1), Rect(1, 1), Rect(1, 1)>>)>>

\* ------------------------------------------------------------ clear()
\* The targets the registry tracks.
Tracked == {tab \in Tabs : sessions[tab] # None}
\* clear(), line 86: the targets the loop calls remove for.
ClearedTabs == Tracked
\* The slot taken by the remove that clear() starts for a tab: the k-th idle
\* slot for the k-th tab of the loop.
SlotFor(tab) ==
  CHOOSE t \in Tasks :
    /\ pc[t] = "idle"
    /\ Cardinality({u \in Tasks : u < t /\ pc[u] = "idle"}) = Cardinality({b \in ClearedTabs : b < tab})
\* The history of a remove started by clear(), up to its suspension or its end.
ClearHist(tab) ==
  LET s == sessions[tab]
      att == attached[s]
      en == Browser(tab)
      h1 == <<Ev("remove", s, att, en, "known"), Ev("detach", s, att, en, 0)>>
  IN IF DetachGuard(att)
     THEN Append(h1, Ev("detach.req", s, att, en, 0))
     ELSE h1 \o <<Ev("detach.noop", s, att, en, 0), Ev("removed", s, att, "detached", None)>>

\* sessionManager.clear(): remove(tabId) is called for every tracked target
\* without being awaited; each runs up to its chrome.debugger.detach, or to its
\* end when the session's flag is clear.
CallClear ==
  /\ ClearedTabs # {}
  /\ \A u \in Tasks : ~(op[u].kind = "remove" /\ op[u].via = "clear")
  /\ Cardinality({t \in Tasks : pc[t] = "idle"}) >= Cardinality(ClearedTabs)
  /\ LET slots == {SlotFor(tab) : tab \in ClearedTabs}
         tabOf(t) == CHOOSE tab \in ClearedTabs : SlotFor(tab) = t
         sus(t) == DetachGuard(attached[sessions[tabOf(t)]])
         gone(tab) == tab \in ClearedTabs /\ ~DetachGuard(attached[sessions[tab]])
     IN /\ pc' = [t \in Tasks |-> IF t \in slots THEN (IF sus(t) THEN "detach" ELSE "done") ELSE pc[t]]
        /\ op' = [t \in Tasks |-> IF t \in slots
                                   THEN [kind |-> "remove", tab |-> tabOf(t), via |-> "clear"]
                                   ELSE op[t]]
        /\ ses' = [t \in Tasks |-> IF t \in slots THEN sessions[tabOf(t)] ELSE ses[t]]
        /\ res' = [t \in Tasks |-> IF t \in slots /\ ~sus(t) THEN Success ELSE res[t]]
        /\ hist' = [t \in Tasks |-> IF t \in slots THEN ClearHist(tabOf(t)) ELSE hist[t]]
        /\ doomed' = [t \in Tasks |-> IF t \in slots THEN FALSE ELSE doomed[t]]
        /\ sessions' = [tab \in Tabs |-> IF gone(tab) THEN None ELSE sessions[tab]]
        /\ dropped' = [tab \in Tabs |-> IF gone(tab) THEN TRUE ELSE dropped[tab]]
  /\ UNCHANGED <<tabId, attached, refStores, dbg, domains, tabOpen, step, elapsed, frames>>

\* ------------------------------------------------------------ specifications
\* The extension: commands from the side panel and the browser's events, on Target.
Next ==
  \/ \E t \in Tasks, cmd \in {"snapshot", "click"}, r \in RefIds :
       /\ cmd # "click" => r = 0
       /\ Dispatch(t, Target, cmd, r)
  \/ \E t \in Tasks : AttachResp(t)
  \/ \E t \in Tasks : EnableResp(t)
  \/ \E t \in Tasks : SendResp(t)
  \/ \E t \in Tasks : Deliver(t)
  \/ \E t \in Tasks : DetachResp(t)
  \/ \E t \in Tasks : BrowserDetach(t, Target)
  \/ \E t \in Tasks : TabClose(t, Target)

Spec == Init /\ [][Next]_vars

\* The exported API driven directly: one command kind, and the registry's and the
\* session's methods called by hand on Target.
NextAPI ==
  \/ \E t \in Tasks : Dispatch(t, Target, "evaluate", 0)
  \/ \E t \in Tasks : AttachResp(t)
  \/ \E t \in Tasks : EnableResp(t)
  \/ \E t \in Tasks : SendResp(t)
  \/ \E t \in Tasks : Deliver(t)
  \/ \E t \in Tasks : DetachResp(t)
  \/ \E t \in Tasks : BrowserDetach(t, Target)
  \/ \E t \in Tasks : TabClose(t, Target)
  \/ \E t \in Tasks : CallRemove(t, Target)
  \/ \E t \in Tasks, s \in SessIds : CallAttach(t, s)
  \/ \E t \in Tasks, s \in SessIds : CallDetach(t, s)
  \/ \E t \in Tasks, s \in SessIds : CallSend(t, s)

SpecAPI == Init /\ [][NextAPI]_vars

\* No command is running, and at most one was sent before: the side panel sends
\* a command after the previous one was answered.
NoCommandRunning ==
  /\ \A u \in Tasks : op[u].kind = "command" => pc[u] = "done"
  /\ Cardinality({u \in Tasks : op[u].kind = "command"}) <= 1

\* The dispatcher: two commands of any name (or of an unknown one) sent one
\* after the other, with the browser's events at any moment, on Target.
NextCmd ==
  \/ \E t \in Tasks, cmd \in (CommandNames \cup {Unknown}) \ {"navigate", "waitForLoad"} :
       NoCommandRunning /\ Dispatch(t, Target, cmd, 0)
  \/ \E t \in Tasks, url \in {"", "a.com"} :
       NoCommandRunning /\ DispatchNavigate(t, Target, url)
  \/ \E t \in Tasks, timeout \in 0..MaxTimeout :
       NoCommandRunning /\ DispatchWait(t, Target, timeout)
  \/ \E t \in Tasks : AttachResp(t)
  \/ \E t \in Tasks : EnableResp(t)
  \/ \E t \in Tasks : SendResp(t)
  \/ \E t \in Tasks : Wake(t)
  \/ \E t \in Tasks : Deliver(t)
  \/ \E t \in Tasks : DetachResp(t)
  \/ \E t \in Tasks : BrowserDetach(t, Target)
  \/ \E t \in Tasks : TabClose(t, Target)

SpecCmd == Init /\ [][NextCmd]_vars

\* Teardown: commands on either target, the browser's events, and clear()
\* called once at any moment; no command is dispatched after the call.
NextTeardown ==
  \/ \E t \in Tasks, tab \in Tabs :
       /\ \A u \in Tasks : op[u].kind = "remove" => op[u].via # "clear"
       /\ Dispatch(t, tab, "screenshot", 0)
  \/ \E t \in Tasks : AttachResp(t)
  \/ \E t \in Tasks : EnableResp(t)
  \/ \E t \in Tasks : SendResp(t)
  \/ CallClear
  \/ \E t \in Tasks : Deliver(t)
  \/ \E t \in Tasks : DetachResp(t)
  \/ \E t \in Tasks, tab \in Tabs : BrowserDetach(t, tab)

SpecTeardown == Init /\ [][NextTeardown]_vars

\* No command is running on the tab.
NoCommandRunningOn(tab) ==
  \A u \in Tasks : (op[u].kind = "command" /\ op[u].tab = tab) => pc[u] = "done"
\* Two targets: snapshots and clicks on either (one after the other on the same
\* target, overlapping across targets), removes called for either, and the
\* browser ending the debugging of either at any moment.
NextTabs ==
  \/ \E t \in Tasks, tab \in Tabs, cmd \in {"snapshot", "click"} :
       NoCommandRunningOn(tab) /\ Dispatch(t, tab, cmd, 0)
  \/ \E t \in Tasks : AttachResp(t)
  \/ \E t \in Tasks : EnableResp(t)
  \/ \E t \in Tasks : SendResp(t)
  \/ \E t \in Tasks : Deliver(t)
  \/ \E t \in Tasks : DetachResp(t)
  \/ \E t \in Tasks, tab \in Tabs : BrowserDetach(t, tab)
  \/ \E t \in Tasks, tab \in Tabs : CallRemove(t, tab)

SpecTabs == Init /\ [][NextTabs]_vars

\* Typing: a snapshot or a type command with any options, two commands one
\* after the other, with the browser's events at any moment, on Target.
Texts == {<<>>, <<"a">>}
NextType ==
  \/ \E t \in Tasks : NoCommandRunning /\ Dispatch(t, Target, "snapshot", 0)
  \/ \E t \in Tasks, hasRef, clear, seq \in BOOLEAN, text \in Texts :
       /\ NoCommandRunning
       /\ DispatchType(t, Target, 0, Options(hasRef, clear, seq), text)
  \/ \E t \in Tasks : AttachResp(t)
  \/ \E t \in Tasks : EnableResp(t)
  \/ \E t \in Tasks : SendResp(t)
  \/ \E t \in Tasks : CharDelay(t)
  \/ \E t \in Tasks : Deliver(t)
  \/ \E t \in Tasks : DetachResp(t)
  \/ \E t \in Tasks : BrowserDetach(t, Target)

SpecType == Init /\ [][NextType]_vars

\* The resolution passes called, and those that returned.
Called == {u \in Tasks : op[u].kind = "buildRefs"}
Passes == {u \in Called : pc[u] = "done" /\ res[u].state = "returned"}
\* A page of the bounded sets is resolved, then resolved once more.
NextRefs ==
  \/ /\ Called = {}
     /\ \E t \in Tasks, nodes \in AXLists, snapshot \in Snapshots :
          CallBuildRefs(t, nodes, snapshot)
  \/ \E t \in Tasks : TreeStep(t)
  \/ /\ Cardinality(Called) = 1
     /\ \E t \in Tasks, u \in Passes : CallBuildRefs(t, op[u].nodes, op[u].snapshot)

SpecRefs == Init /\ [][NextRefs]_vars

\* A structured page is resolved.
NextTree ==
  \/ /\ Called = {}
     /\ \E t \in Tasks, nodes \in TreeLists : CallBuildRefs(t, nodes, PageLayout)
  \/ \E t \in Tasks : TreeStep(t)

SpecTree == Init /\ [][NextTree]_vars

\* buildTree is synchronous code: a pass that was called runs on.
SpecTreeFair ==
  /\ Init /\ [][NextTree]_vars
  /\ \A t \in Tasks : WF_<<pc, frames>>(TreeStep(t))

\* The dispatcher when the browser answers every protocol call and every timer
\* fires (each such step moves the call: its pc or its step changes).
SpecCmdFair ==
  /\ Init /\ [][NextCmd]_vars
  /\ \A t \in Tasks : WF_<<pc, step>>(SendResp(t)) /\ WF_<<pc, step>>(Wake(t))

\* ------------------------------------------------------------ properties
HasEv(t, e) == \E i \in DOMAIN hist[t] : hist[t][i].ev = e
EvNames(t) == [i \in DOMAIN hist[t] |-> hist[t][i].ev]
Last(h) == h[Len(h)]
NoRemoveYet(tab) == \A u \in Tasks : ~(op[u].kind = "remove" /\ op[u].tab = tab /\ HasEv(u, "removed"))

\* A dispatch whose getOrCreate found no attached session (none registered, or
\* one with the flag clear).
NeededAttach(t) ==
  /\ op[t].kind = "command"
  /\ hist[t] # <<>>
  /\ hist[t][1].ev = "getOrCreate"
  /\ ~hist[t][1].att

\* C1: a getOrCreate that found no attached session and returned has asked the
\* browser to attach, then sent the enable batch (Page, DOM, Accessibility,
\* Runtime), each answered before the next step, and returns the session with
\* its attached flag set.
C1_AttachThenEnable ==
  \A t \in Tasks :
    (NeededAttach(t) /\ HasEv(t, "return")) =>
      /\ Len(hist[t]) >= 7
      /\ SubSeq(EvNames(t), 1, 7) =
           <<"getOrCreate", "attach", "attach.req", "attach.ok", "enable.req", "enable.ok", "return">>
      /\ hist[t][5].x = <<"Page.enable", "DOM.enable", "Accessibility.enable", "Runtime.enable">>
      /\ hist[t][7].s = hist[t][1].s
      /\ hist[t][7].att
      /\ hist[t][7].en = "ok"
\* C1 happens: a dispatch found a registered session with the flag clear and
\* its getOrCreate returned.
C1_Witness ==
  \E t \in Tasks : NeededAttach(t) /\ ~hist[t][1].x.fresh /\ HasEv(t, "return")

\* C2: a command is forwarded to an attached target only after the enable batch
\* of the current attachment has completed.
C2_NoSendBeforeEnabled ==
  \A t \in Tasks : \A i \in DOMAIN hist[t] :
    (op[t].kind = "command" /\ hist[t][i].ev = "send" /\ hist[t][i].x.fwd /\ hist[t][i].en # "detached")
      => hist[t][i].en = "ok"

\* C3: a getOrCreate that follows a failed enable batch on the same attachment
\* returns a session only after it has run the enable batch again with success.
C3_EnableRerunAfterFailure ==
  \A t \in Tasks :
    (/\ op[t].kind = "command"
     /\ hist[t] # <<>>
     /\ hist[t][1].ev = "getOrCreate"
     /\ hist[t][1].en = "failed"
     /\ HasEv(t, "return")) => HasEv(t, "enable.ok")

\* C4: as long as no remove has dropped the target's entry, the dispatches for a
\* target have constructed one session object between them, and each holds the
\* object the registry maps the target to.
C4_OneSessionPerTarget ==
  \A tab \in Tabs :
    NoRemoveYet(tab) =>
      /\ Cardinality({s \in SessIds : tabId[s] = tab}) <= 1
      /\ \A t \in Tasks : (op[t].kind = "command" /\ op[t].tab = tab) => ses[t] = sessions[tab]
\* C4 happens: a second dispatch got the session while the first one's
\* getOrCreate was still waiting for the enable batch.
C4_Witness ==
  \E t1, t2 \in Tasks :
    /\ t1 # t2
    /\ pc[t1] = "enable" /\ op[t1].kind = "command"
    /\ op[t2].kind = "command" /\ HasEv(t2, "return")
    /\ ses[t1] = ses[t2]
    /\ NoRemoveYet(op[t1].tab)

\* C5: a click dispatched after a remove of its target completed, with no
\* snapshot since, does not find a ref id of the table from before the removal.
C5_RefsDroppedWithSession ==
  \A t \in Tasks : \A i \in DOMAIN hist[t] :
    (/\ hist[t][1].ev = "getOrCreate" /\ hist[t][1].x.dropped
     /\ hist[t][i].ev = "lookup" /\ hist[t][i].x.dropped) => ~hist[t][i].x.found

\* C6: when remove has run to completion for a known target the session it
\* found has the attached flag clear and the registry has no entry for the
\* target; remove for an unknown target asks nothing of the browser and changes
\* nothing.
C6_RemoveDone ==
  \A t \in Tasks :
    (op[t].kind = "remove" /\ pc[t] = "done") =>
      IF hist[t][1].x = "known"
      THEN /\ Last(hist[t]).ev = "removed"
           /\ ~Last(hist[t]).att
           /\ Last(hist[t]).x = None
      ELSE Len(hist[t]) = 1
C6_UnknownIsNoop ==
  \A t \in Tasks :
    (pc[t] \in {"idle", "event"} /\ pc'[t] = "done" /\ op'[t].kind = "remove" /\ sessions[op'[t].tab] = None)
      => UNCHANGED <<sessions, tabId, attached, refStores, dbg, domains, tabOpen>>
\* C6 (both parts): the state a completed remove leaves, and the step of a
\* remove that finds the target unknown.
C6_Remove == [](C6_RemoveDone) /\ [][C6_UnknownIsNoop]_vars
\* C6 happens: a listener's remove completed for a registered session whose
\* remote detach was refused, and a later direct remove found the target unknown.
C6_Witness ==
  \E t1, t2 \in Tasks :
    /\ op[t1].kind = "remove" /\ op[t1].via = "onDetach"
    /\ HasEv(t1, "detach.fail") /\ HasEv(t1, "removed")
    /\ op[t2].kind = "remove" /\ op[t2].via = "direct"
    /\ pc[t2] = "done" /\ hist[t2][1].x = "unknown"

\* C7: a send on a session whose attached flag is clear forwards nothing and
\* fails with the not-attached error.
C7_SendNotAttached ==
  \A t \in Tasks : \A i \in DOMAIN hist[t] :
    (hist[t][i].ev = "send" /\ ~hist[t][i].att) =>
      /\ ~hist[t][i].x.fwd
      /\ i = Len(hist[t])
      /\ pc[t] = "done"
      /\ ~res[t].success
      /\ res[t].error = "NotAttached"
\* C7 happens: send was called on a session that was never attached.
C7_Witness ==
  \E t \in Tasks :
    /\ op[t].kind = "send"
    /\ hist[t][1].ev = "send" /\ ~hist[t][1].att
    /\ \A u \in Tasks : \A i \in DOMAIN hist[u] : ~(hist[u][i].ev = "attach.ok" /\ hist[u][i].s = ses[t])

\* C8: attach() on a session whose attached flag is set returns at once: no
\* request to the browser, no failure, and the flag (and everything else of the
\* sessions and the browser) as it was.
C8_AttachNoop ==
  \A t \in Tasks :
    (pc[t] = "idle" /\ pc'[t] # "idle" /\ op'[t].kind = "attach" /\ attached[ses'[t]]) =>
      /\ pc'[t] = "done"
      /\ res'[t] = Success
      /\ ~\E i \in DOMAIN hist'[t] : hist'[t][i].ev = "attach.req"
      /\ attached'[ses'[t]]
      /\ UNCHANGED <<sessions, tabId, attached, dbg, domains>>
\* C8 as a property of every step that starts an attach() on an attached session.
C8_AttachTwice == [][C8_AttachNoop]_vars
\* C8 happens: attach() was called on an attached session.
C8_Witness ==
  \E t \in Tasks : op[t].kind = "attach" /\ hist[t][1].att /\ pc[t] = "done"

\* C9: detach() on a session with the flag clear asks nothing of the browser;
\* with the flag set it sends one remote detach and, accepted or refused, does
\* not fail and leaves the flag clear.
C9_Detach ==
  \A t \in Tasks : \A i \in DOMAIN hist[t] :
    hist[t][i].ev = "detach" =>
      IF ~hist[t][i].att
      THEN /\ ~HasEv(t, "detach.req")
           /\ Len(hist[t]) > i /\ hist[t][i + 1].ev = "detach.noop"
      ELSE /\ Len(hist[t]) > i /\ hist[t][i + 1].ev = "detach.req"
           /\ Cardinality({j \in DOMAIN hist[t] : hist[t][j].ev = "detach.req"}) = 1
           /\ pc[t] # "detach" =>
                /\ hist[t][i + 2].ev \in {"detach.ok", "detach.fail"}
                /\ ~hist[t][i + 2].att
                /\ pc[t] = "done" /\ res[t] = Success
\* C9 happens: one remote detach was accepted and another refused.
C9_Witness ==
  \E t1, t2 \in Tasks : HasEv(t1, "detach.ok") /\ HasEv(t2, "detach.fail") /\ pc[t1] = "done" /\ pc[t2] = "done"

\* C10: when the browser refuses the attach, attach() fails, the session's
\* attached flag is clear afterwards, and the getOrCreate returns no session.
C10_AttachRefused ==
  \A t \in Tasks : \A i \in DOMAIN hist[t] :
    hist[t][i].ev = "attach.fail" =>
      /\ ~hist[t][i].att
      /\ pc[t] = "done" /\ ~res[t].success /\ res[t].error = "Connection"
      /\ ~HasEv(t, "return")

\* C11: the first command dispatched for a target after the listener's remove
\* for an external detach has completed (and with no further removal of the
\* target starting during the command) asks the browser to attach first; each
\* protocol call it makes is forwarded and comes after its own accepted attach
\* and accepted enable batch; it does not end with the not-attached error.
C11_ReattachAfterDetach ==
  \A t \in Tasks :
    (/\ op[t].kind = "command"
     /\ hist[t] # <<>>
     /\ hist[t][1].ev = "getOrCreate"
     /\ hist[t][1].x.detached /\ hist[t][1].x.fresh
     /\ \A u \in Tasks : u > t => op[u].kind # "remove") =>
      /\ Len(hist[t]) >= 3
      /\ hist[t][2].ev = "attach" /\ hist[t][3].ev = "attach.req"
      /\ \A i \in DOMAIN hist[t] :
           hist[t][i].ev = "send" =>
             /\ hist[t][i].x.fwd
             /\ \E j, k \in 1..i : j < k /\ hist[t][j].ev = "attach.ok" /\ hist[t][k].ev = "enable.ok"
      /\ res[t].state # "pending" => res[t].error # "NotAttached"
\* C11 happens: a command dispatched after a processed external detach ran to
\* success on a new attachment.
C11_Witness ==
  \E t \in Tasks :
    /\ op[t].kind = "command"
    /\ hist[t] # <<>> /\ hist[t][1].ev = "getOrCreate"
    /\ hist[t][1].x.detached /\ hist[t][1].x.fresh
    /\ pc[t] = "done" /\ res[t] = Success
    /\ \E i \in DOMAIN hist[t] : hist[t][i].ev = "send"

\* A command that ended on a protocol call the browser rejected while the
\* debugger was attached.
RejectedCommand(t) ==
  /\ op[t].kind = "command" /\ pc[t] = "done"
  /\ res[t] = Failure("Protocol")
  /\ Last(hist[t]).ev = "send.fail" /\ Last(hist[t]).en # "detached"

\* C12, the failing step: when the browser rejects a protocol call of a command
\* running on the target's registered, attached session, with the debugger
\* still attached (no detach since the call was sent), the command fails and
\* the session is still registered for the target with its attached flag set,
\* the registry and the flags being left as they were.
C12_RejectKeepsSession ==
  \A t \in Tasks :
    (/\ pc[t] = "send" /\ pc'[t] = "done" /\ op[t].kind = "command"
     /\ sessions[op[t].tab] = ses[t] /\ attached[ses[t]]
     /\ dbg[op[t].tab] /\ ~doomed[t]
     /\ res'[t].error = "Protocol") =>
      /\ res'[t] = Failure("Protocol")
      /\ sessions'[op[t].tab] = ses[t]
      /\ attached'[ses[t]]
      /\ UNCHANGED <<sessions, tabId, attached, dbg>>
\* C12, the next command: a dispatch for a target whose registered session has
\* the flag set and has seen a command rejected gets that session and goes on to
\* the command function with no attach.
C12_NextOnSameSession ==
  \A t \in Tasks :
    (/\ pc[t] = "idle" /\ op'[t].kind = "command"
     /\ sessions[op'[t].tab] # None /\ attached[sessions[op'[t].tab]]
     /\ \E u \in Tasks : RejectedCommand(u) /\ ses[u] = sessions[op'[t].tab]) =>
      /\ ses'[t] = sessions[op'[t].tab]
      /\ sessions' = sessions
      /\ hist'[t][2].ev = "return"
      /\ \A i \in DOMAIN hist'[t] : hist'[t][i].ev \notin {"attach", "attach.req", "enable.req"}
\* C12: a remote rejection leaves the session registered and attached, and the
\* next command for the target runs on it without a new remote attach.
C12_FailedCommandKeepsSession == [][C12_RejectKeepsSession /\ C12_NextOnSameSession]_vars
\* C12 happens: with no removal in the run, a command was rejected by the
\* browser and a later one ran to success on the same session without attaching.
C12_Witness ==
  \E t1, t2 \in Tasks :
    /\ t1 < t2
    /\ RejectedCommand(t1)
    /\ \A u \in Tasks : op[u].kind # "remove"
    /\ op[t2].kind = "command" /\ ses[t2] = ses[t1]
    /\ hist[t2][1].att /\ hist[t2][2].ev = "return"
    /\ pc[t2] = "done" /\ res[t2] = Success

\* A step in which call t hands a protocol call to chrome.debugger.sendCommand.
Forwards(t) ==
  /\ pc'[t] = "send"
  /\ Len(hist'[t]) > Len(hist[t])
  /\ Last(hist'[t]).ev = "send" /\ Last(hist'[t]).x.fwd
\* C13: no protocol call is forwarded on a session while a detach() of that
\* session is waiting for the browser's answer.
C13_NoSendInDetach ==
  \A t \in Tasks :
    Forwards(t) => ~\E u \in Tasks : pc[u] = "detach" /\ ses[u] = ses'[t]
C13_NoSendDuringDetach == [][C13_NoSendInDetach]_vars

\* A step of the command failed: the attach or the enable batch of its
\* getOrCreate, a send refused for the flag or rejected by the browser, a ref
\* lookup that found nothing, a blank url, or a command name the switch lacks.
StepFailed(t) ==
  \/ op[t].cmd \notin CommandNames
  \/ \E i \in DOMAIN hist[t] :
       \/ hist[t][i].ev \in {"attach.fail", "enable.fail", "enable.refused", "send.fail", "normalizeUrl"}
       \/ hist[t][i].ev = "send" /\ ~hist[t][i].x.fwd
       \/ hist[t][i].ev = "lookup" /\ ~hist[t][i].x.found
\* handleCommand returned (it did not throw).
C14_Returned ==
  \A t \in Tasks : (op[t].kind = "command" /\ pc[t] = "done") => res[t].state = "returned"
\* C14: a dispatched command that is over has returned a result, never thrown,
\* and when one of its steps failed the result is {success: false, error}.
C14_DispatchNeverRaises ==
  \A t \in Tasks :
    (op[t].kind = "command" /\ pc[t] = "done") =>
      /\ res[t].state = "returned"
      /\ StepFailed(t) => (~res[t].success /\ res[t].error # "")

\* A call that runs waitForLoad (directly, or as navigate's page-load wait).
Waits(t) == op[t].kind = "command" /\ WaitFrom(op[t].cmd) > 0
\* The call is inside waitForLoad, waiting for an answer or for the sleep to end.
InLoop(t) == Waits(t) /\ pc[t] \in {"send", "sleep"} /\ step[t] >= WaitFrom(op[t].cmd)
Polls(t) == {i \in DOMAIN hist[t] : hist[t][i].ev = "poll"}

\* C15, what waitForLoad does and returns: a poll is sent only after a clock
\* reading under the timeout; a poll answering 'complete' ends the wait with
\* success at once; any other answer leads to the sleep and a new clock reading;
\* a clock reading that has reached the timeout ends the wait with the timeout
\* failure; success is returned only on a 'complete' poll, the timeout failure
\* only when no poll was 'complete'; the wait returns a result, never throws;
\* and there are at most as many polls as the timeout has sleep units.
C15_WaitResult ==
  \A t \in Tasks :
    Waits(t) =>
      /\ Cardinality(Polls(t)) <= op[t].timeout
      /\ \A i \in DOMAIN hist[t] :
           LET e == hist[t][i] IN
           /\ (e.ev = "send" /\ e.x.m = "Runtime.evaluate") =>
                (hist[t][i - 1].ev = "clock" /\ hist[t][i - 1].x < op[t].timeout)
           /\ (e.ev = "poll" /\ e.x) =>
                (Len(hist[t]) = i + 1 /\ hist[t][i + 1].ev = "wait" /\ hist[t][i + 1].x = Success)
           /\ (e.ev = "poll" /\ ~e.x) =>
                IF i = Len(hist[t]) THEN pc[t] = "sleep" ELSE hist[t][i + 1].ev = "clock"
           /\ (e.ev = "clock" /\ e.x >= op[t].timeout) =>
                (Len(hist[t]) = i + 1 /\ hist[t][i + 1].ev = "wait"
                   /\ hist[t][i + 1].x = Failure("Timeout"))
           /\ e.ev = "wait" =>
                /\ i = Len(hist[t]) /\ pc[t] = "done" /\ res[t].state = "returned"
                /\ op[t].cmd = "waitForLoad" => res[t] = e.x
                /\ e.x.success => (hist[t][i - 1].ev = "poll" /\ hist[t][i - 1].x)
                /\ e.x = Failure("Timeout") =>
                     (hist[t][i - 1].ev = "clock" /\ \A j \in Polls(t) : ~hist[t][j].x)
                /\ (~e.x.success /\ e.x # Failure("Timeout")) =>
                     \/ hist[t][i - 1].ev = "send.fail"
                     \/ hist[t][i - 1].ev = "send" /\ ~hist[t][i - 1].x.fwd
\* C15, termination: when every protocol call is answered and every sleep ends,
\* a call inside waitForLoad comes to its end.
C15_Terminates == \A t \in Tasks : InLoop(t) ~> (pc[t] = "done")
\* C15: waitForLoad terminates when every poll answers, with success at the
\* first 'complete' poll and with the timeout failure when the elapsed time
\* reaches the timeout without one.
C15_WaitForLoad == [](C15_WaitResult) /\ C15_Terminates
\* C15 happens: a waitForLoad polled twice, never saw 'complete', and returned
\* the timeout failure.
C15_Witness ==
  \E t \in Tasks :
    /\ op[t].kind = "command" /\ op[t].cmd = "waitForLoad"
    /\ pc[t] = "done" /\ res[t] = Failure("Timeout")
    /\ Cardinality(Polls(t)) = 2

\* The i-th entry of the call's history is a poll of waitForLoad's loop being sent.
PollSent(t, i) == hist[t][i].ev = "send" /\ hist[t][i].x.m = "Runtime.evaluate"
LooksUp(t) == op'[t].kind = "command" /\ op'[t].cmd = "click" /\ HasEv(t, "lookup")' /\ ~HasEv(t, "lookup")
\* C17, the step: a click whose ref id is not an id of the target's Ref Table
\* at that moment ends at once with the ref-not-found failure, has forwarded no
\* protocol call, and leaves the sessions and the browser as they were.
C17_UnknownRefStep ==
  \A t \in Tasks :
    (LooksUp(t) /\ ~\E r \in refStores[op'[t].tab].refs : r.id = op'[t].ref) =>
      /\ pc'[t] = "done"
      /\ res'[t] = Failure("RefNotFound")
      /\ Last(hist'[t]).ev = "lookup"
      /\ \A i \in DOMAIN hist'[t] : hist'[t][i].ev # "send"
      /\ refStores'[op'[t].tab].refs = refStores[op'[t].tab].refs
\* C17: click with a ref id that is not in the target's current Ref Table
\* returns the ref-not-found failure and forwards no protocol call.
C17_ClickUnknownRef == [][C17_UnknownRefStep]_vars
\* C17 happens: a click on e1 failed with ref-not-found although a pass had
\* issued e1, the table now holding a later pass without it.
C17_Witness ==
  \E t, u \in Tasks :
    /\ op[t].kind = "command" /\ op[t].cmd = "click" /\ op[t].ref = 1
    /\ pc[t] = "done" /\ res[t] = Failure("RefNotFound")
    /\ Last(hist[t]).ev = "lookup" /\ Last(hist[t]).x.table = {MkRef(0, 1)}
    /\ op[u].kind = "command" /\ op[u].cmd = "snapshot"
    /\ HasEv(u, "update") /\ Last(hist[u]).x = <<MkRef(0, 2), MkRef(1, 1)>>
    /\ refStores[Target] = TableOf(<<MkRef(0, 1)>>)

\* The removes that clear() started.
ClearTasks == {u \in Tasks : op[u].kind = "remove" /\ op[u].via = "clear"}
\* C18: once clear() has been called and every remove it started has run to
\* its end, the registry tracks no target and every session that was tracked
\* at the call has its attached flag clear.
C18_ClearTearsDown ==
  (ClearTasks # {} /\ \A u \in ClearTasks : pc[u] = "done") =>
    /\ \A tab \in Tabs : sessions[tab] = None
    /\ \A u \in ClearTasks : ~attached[ses[u]]

\* ------------------------------------------------------------ C19, C20
\* The first position of v in seq (seq holds v).
FirstPos(seq, v) ==
  CHOOSE i \in DOMAIN seq : seq[i] = v /\ \A j \in 1..(i - 1) : seq[j] # v
\* Document doc holds a rectangle for the identity: its first entry for the
\* identity has a layout entry whose bounds are four numbers.
HasRect(doc, id) ==
  /\ \E i \in DOMAIN doc.backendNodeId : doc.backendNodeId[i] = id
  /\ \E l \in DOMAIN doc.nodeIndex : doc.nodeIndex[l] = FirstPos(doc.backendNodeId, id)
  /\ LET l == FirstPos(doc.nodeIndex, FirstPos(doc.backendNodeId, id))
     IN l \in DOMAIN doc.bounds /\ Len(doc.bounds[l]) >= 4
RectOf(doc, id) ==
  doc.bounds[FirstPos(doc.nodeIndex, FirstPos(doc.backendNodeId, id))]
\* The rectangle found for the identity is that of the first document holding one.
Found(snapshot, id) == \E d \in DOMAIN snapshot : HasRect(snapshot[d], id)
FoundRect(snapshot, id) ==
  RectOf(snapshot[CHOOSE d \in DOMAIN snapshot :
           HasRect(snapshot[d], id) /\ \A e \in 1..(d - 1) : ~HasRect(snapshot[e], id)], id)
\* Some document has a layout entry for the identity.
HasLayoutEntry(snapshot, id) ==
  \E d \in DOMAIN snapshot : \E i \in DOMAIN snapshot[d].backendNodeId :
    /\ snapshot[d].backendNodeId[i] = id
    /\ \E l \in DOMAIN snapshot[d].nodeIndex : snapshot[d].nodeIndex[l] = i
\* The positions of the nodes a pass keeps.
Kept(nodes, snapshot) ==
  {i \in DOMAIN nodes :
     /\ ~nodes[i].ignored
     /\ \E role \in ActionableRoles : Lower(nodes[i].role) = role
     /\ nodes[i].backendDOMNodeId # 0
     /\ Found(snapshot, nodes[i].backendDOMNodeId)
     /\ FoundRect(snapshot, nodes[i].backendDOMNodeId)[3] > 0
     /\ FoundRect(snapshot, nodes[i].backendDOMNodeId)[4] > 0}
\* The k-th smallest member of a set of positions.
Nth(S, k) == CHOOSE i \in S : Cardinality({j \in S : j < i}) = k - 1

\* C19: the Ref list of a resolution pass is exactly the subsequence, in
\* enumeration order, of the nodes that are not ignored, have an actionable
\* role whatever its case, have a backing-DOM identity and have a box of
\* positive width and height; the k-th Ref, counting from zero, has id 'e'
\* followed by k; the ids are pairwise distinct; two passes over the same
\* inputs yield the same Refs in the same order.
C19_RefsAreKeptNodes ==
  \A t \in Passes :
    LET refs == res[t].refs
        K == Kept(op[t].nodes, op[t].snapshot)
    IN /\ Len(refs) = Cardinality(K)
       /\ \A k \in DOMAIN refs :
            /\ refs[k].id = <<"e", k - 1>>
            /\ refs[k].axNodeId = op[t].nodes[Nth(K, k)].nodeId
            /\ refs[k].backendNodeId = op[t].nodes[Nth(K, k)].backendDOMNodeId
       /\ \A k, l \in DOMAIN refs : refs[k].id = refs[l].id => k = l
       /\ \A u \in Passes :
            (op[u].nodes = op[t].nodes /\ op[u].snapshot = op[t].snapshot) =>
              res[u].refs = refs

\* A page was resolved twice; its first node was skipped and its second
\* node, whose role is upper-case, became Ref e0.
C19_Witness ==
  \E t, u \in Passes :
    /\ t # u
    /\ Len(op[t].nodes) = 2
    /\ ~op[t].nodes[1].ignored /\ op[t].nodes[1].role = "button"
    /\ op[t].nodes[1].backendDOMNodeId = 2
    /\ op[t].nodes[2].role = "LINK"
    /\ Len(res[t].refs) = 1
    /\ res[t].refs[1].axNodeId = 2
    /\ Len(res[u].refs) = 1

\* C20: no node is in the Ref list if no document has a layout entry for its
\* backing-DOM identity, or if the rectangle found for it has width 0 or
\* height 0, whatever its role; every Ref has a box, of positive width and
\* height.
C20_RefsAreVisible ==
  \A t \in Passes :
    LET refs == res[t].refs
        nodes == op[t].nodes
        snapshot == op[t].snapshot
    IN /\ \A k \in DOMAIN refs :
            /\ refs[k].boundingBox # Null
            /\ refs[k].boundingBox[3] > 0
            /\ refs[k].boundingBox[4] > 0
       /\ \A i \in DOMAIN nodes :
            LET id == nodes[i].backendDOMNodeId
            IN (\/ ~HasLayoutEntry(snapshot, id)
                \/ /\ Found(snapshot, id)
                   /\ (FoundRect(snapshot, id)[3] = 0 \/ FoundRect(snapshot, id)[4] = 0))
                 => \A k \in DOMAIN refs : refs[k].axNodeId # nodes[i].nodeId

\* A pass over two buttons, neither ignored: the rectangle found for the first
\* has height 0, that of the second width 0, and the pass kept neither.
C20_Witness ==
  \E t \in Passes :
    /\ Len(op[t].nodes) = 2
    /\ \A i \in 1..2 : ~op[t].nodes[i].ignored /\ op[t].nodes[i].role = "button"
    /\ op[t].nodes[1].backendDOMNodeId = 2
    /\ op[t].nodes[2].backendDOMNodeId = 1
    /\ Found(op[t].snapshot, 2) /\ FoundRect(op[t].snapshot, 2) = Rect(1, 0)
    /\ res[t].refs = <<>>

\* ------------------------------------------------------------ C26
\* C26: a resolution pass over an empty accessibility-node list returns an
\* empty Ref list and the tree text 'Empty page'.
C26_EmptyList ==
  \A t \in Passes :
    op[t].nodes = <<>> =>
      /\ res[t].refs = <<>>
      /\ res[t].tree = << <<0, "Empty page", "", <<>>>> >>

\* A pass over no node and a layout snapshot of one document returned.
C26_Witness ==
  \E t \in Passes : op[t].nodes = <<>> /\ Len(op[t].snapshot) = 1

\* ------------------------------------------------------------ C24
\* The call stack is never deeper than twice the number of nodes plus one.
C24_StackBounded ==
  \A t \in Called : Len(frames[t].stack) <= 2 * Len(op[t].nodes) + 1
\* Every pass that was called returns.
C24_Returns ==
  \A t \in Tasks : (pc[t] = "tree") ~> (pc[t] = "done" /\ res[t].state = "returned")
\* C24: building and rendering the display tree terminates for every finite
\* accessibility-node list, also when parent pointers or child-identity lists
\* form a cycle: the recursion never exceeds the stack and the pass returns
\* its Refs and its text.
C24_TreeTerminates == []C24_StackBounded /\ C24_Returns

\* Node ids a and b are on a cycle of the child relation of the list.
ChildOf(nodes, a) == {GetChildIds(nodes, a)[k] : k \in DOMAIN GetChildIds(nodes, a)}
RECURSIVE Reach(_, _, _)
Reach(nodes, S, n) ==
  IF n = 0 THEN S
  ELSE Reach(nodes, S \cup UNION {ChildOf(nodes, a) : a \in S}, n - 1)
OnCycle(nodes, a) ==
  HasNode(nodes, a) /\ a \in Reach(nodes, ChildOf(nodes, a), Len(nodes))
\* A pass over a page whose second and third node are each other's parent,
\* the first node listing the second as its child, returned a text.
C24_Witness ==
  \E t \in Passes :
    /\ Len(op[t].nodes) = 3
    /\ OnCycle(op[t].nodes, 2) /\ OnCycle(op[t].nodes, 3)
    /\ op[t].nodes[2].parentId = 3 /\ op[t].nodes[3].parentId = 2
    /\ Len(res[t].tree) = 3

\* ------------------------------------------------------------ C25
\* How many TreeNodes of the trees of a list are made of the node with that id.
RECURSIVE Occurrences(_, _)
Occurrences(trees, id) ==
  IF trees = <<>> THEN 0
  ELSE (IF Head(trees).node.nodeId = id THEN 1 ELSE 0)
         + Occurrences(Head(trees).children, id)
         + Occurrences(Tail(trees), id)
\* The display tree a pass built (none, or its root).
Built(t) == frames[t].ret

\* C25: no node that lies on a cycle of the parent/child relation appears more
\* than once in the display tree built, also when a node of the cycle is
\* listed as a child of another node.
C25_CycleNodesOnce ==
  \A t \in Passes : \A i \in DOMAIN op[t].nodes :
    OnCycle(op[t].nodes, i) => Occurrences(Built(t), i) <= 1

\* ------------------------------------------------------------ C21
\* The ids of the nodes below a node, and of the nodes of the page the display
\* root leads to (the root included).
Descendants(nodes, a) == Reach(nodes, ChildOf(nodes, a), Len(nodes))
Displayed(nodes) == Reach(nodes, {Root(nodes).nodeId}, Len(nodes))
\* The ids of the children of every TreeNode made of the node with that id.
RECURSIVE ChildrenIn(_, _)
ChildrenIn(trees, id) ==
  IF trees = <<>> THEN {}
  ELSE (IF Head(trees).node.nodeId = id
        THEN {{Head(trees).children[k].node.nodeId : k \in DOMAIN Head(trees).children}}
        ELSE {})
         \cup ChildrenIn(Head(trees).children, id)
         \cup ChildrenIn(Tail(trees), id)
HasRef(t, id) == \E k \in DOMAIN res[t].refs : res[t].refs[k].axNodeId = id

\* C21: a node marked ignored, the display root included, yields no Ref and
\* no node of the display tree (so no line of the text), and each of its
\* non-ignored descendants that has a Ref is in the display tree; a child
\* with a Ref of an ignored child of a node of the tree is a child of that
\* node in the tree.
C21_IgnoredIsTransparent ==
  \A t \in Passes :
    LET nodes == op[t].nodes
    IN \A i \in DOMAIN nodes :
         (nodes[i].ignored /\ i \in Displayed(nodes)) =>
           /\ ~HasRef(t, i)
           /\ Occurrences(Built(t), i) = 0
           /\ \A d \in Descendants(nodes, i) \cap DOMAIN nodes :
                (~nodes[d].ignored /\ HasRef(t, d)) => Occurrences(Built(t), d) >= 1
           /\ \A a \in DOMAIN nodes : \A d \in ChildOf(nodes, i) \cap DOMAIN nodes :
                (i \in ChildOf(nodes, a) /\ ~OnCycle(nodes, d)
                   /\ ~nodes[d].ignored /\ HasRef(t, d)) =>
                  \A kids \in ChildrenIn(Built(t), a) : d \in kids

\* ------------------------------------------------------------ C22
\* The pass of call t returns in this step (and the tab's table is updated).
PassReturns(t) == pc[t] = "tree" /\ pc'[t] = "done" /\ res'[t].state = "returned"
C22_RoundTripStep ==
  \A t \in Tasks :
    PassReturns(t) =>
      \A k \in DOMAIN res'[t].refs :
        StoreGet(refStores'[op[t].tab], res'[t].refs[k].id) = {res'[t].refs[k]}
\* C22: for every Ref r a snapshot returns, a lookup of r.id in the target's
\* Ref Table right after the snapshot's update returns a Ref equal to r in
\* all fields.
C22_RoundTrip == [][C22_RoundTripStep]_vars

\* A pass returned two Refs and the table holds them.
C22_Witness ==
  \E t \in Passes :
    /\ Len(res[t].refs) = 2
    /\ refStores[Target].refs = {res[t].refs[1], res[t].refs[2]}

\* ------------------------------------------------------------ C23
\* The snapshot of call t updates the table of its tab in this step.
Updates(t) == op[t].kind = "command" /\ HasEv(t, "update")' /\ ~HasEv(t, "update")
C23_UpdateStep ==
  \A t \in Tasks :
    Updates(t) =>
      LET refs == Last(hist'[t]).x
          store == refStores'[op[t].tab]
      IN /\ \A k \in DOMAIN refs : StoreGet(store, refs[k].id) = {refs[k]}
         /\ \A id \in RefIds :
              (\A k \in DOMAIN refs : refs[k].id # id) => StoreGet(store, id) = {}
         /\ \A r \in store.refs : \E k \in DOMAIN refs : refs[k] = r
\* C23: after update(refs) the Ref Table holds exactly the refs of that call:
\* every id of the new pass resolves to the new pass's Ref and every id that
\* only an earlier pass had is not found, over any sequence of updates.
C23_UpdateReplaces == [][C23_UpdateStep]_vars

\* A pass that found e0 and e1 was followed by a pass that found nothing:
\* the table is empty.
C23_Witness ==
  \E t, u \in Tasks :
    /\ t # u
    /\ HasEv(u, "update") /\ Last(hist[u]).x = <<MkRef(0, 2), MkRef(1, 1)>>
    /\ HasEv(t, "update") /\ Last(hist[t]).x = <<>>
    /\ refStores[Target].made /\ refStores[Target].refs = {}

\* ------------------------------------------------------------ C30
\* The Refs of a list, and the lists of the passes that updated the tab's table.
RefSet(refs) == {refs[k] : k \in DOMAIN refs}
Updated(tab) ==
  UNION {{hist[u][i].x : i \in {i \in DOMAIN hist[u] : hist[u][i].ev = "update"}} :
           u \in {u \in Tasks : op[u].kind = "command" /\ op[u].tab = tab}}
\* The table holds the whole list of one pass (nothing before the first pass).
C30_Whole ==
  \A tab \in Tabs :
    \/ refStores[tab].refs = {} /\ Updated(tab) = {}
    \/ \E refs \in Updated(tab) : refStores[tab].refs = RefSet(refs)
C30_Step ==
  /\ \A t \in Tasks :
       Updates(t) => refStores'[op[t].tab].refs = RefSet(Last(hist'[t]).x)
  /\ \A tab \in Tabs :
       (~\E t \in Tasks : Updates(t) /\ op[t].tab = tab) =>
         refStores'[tab].refs = refStores[tab].refs
  /\ \A t \in Tasks :
       LooksUp(t) =>
         LET lookup == hist'[t][CHOOSE i \in DOMAIN hist'[t] : hist'[t][i].ev = "lookup"].x
         IN /\ lookup.table = refStores[op'[t].tab].refs
            /\ lookup.found = (\E r \in refStores[op'[t].tab].refs : r.id = op'[t].ref)
\* C30: when snapshot commands for one target overlap, the Ref Table at every
\* point is the complete Ref list of one pass, the one whose update ran last,
\* never a mixture of two passes or a partly filled table; a click between
\* them resolves its id against one whole pass.
C30_LastPassWins == [][C30_Step /\ C30_Whole']_vars

\* Two snapshots overlapped: the one dispatched first updated the table last,
\* and a click between the two updates looked its id up in the list of the
\* other.
C30_Witness ==
  /\ \A t \in {1, 2} : op[t].kind = "command" /\ op[t].cmd = "snapshot" /\ op[t].tab = Target
  /\ HasEv(2, "update") /\ Last(hist[2]).x = <<MkRef(0, 2), MkRef(1, 1)>>
  /\ HasEv(1, "update") /\ Last(hist[1]).x = <<MkRef(0, 1)>>
  /\ refStores[Target].refs = {MkRef(0, 1)}
  /\ op[3].kind = "command" /\ op[3].cmd = "click"
  /\ \E i \in DOMAIN hist[3] :
       hist[3][i].ev = "lookup" /\ hist[3][i].x.table = {MkRef(0, 2), MkRef(1, 1)}

\* ------------------------------------------------------------ C27
\* C27: under any interleaving of getOrCreate and remove for one target, every
\* session object whose attached flag is set is the object the registry maps
\* its target to: no attached session is left untracked.
C27_AttachedIsTracked ==
  \A s \in SessIds : attached[s] => sessions[tabId[s]] = s

\* ------------------------------------------------------------ C28, C29
\* The calls waiting for the browser's answer to an attach request for the tab,
\* and those waiting for the answers to their enable batch.
AttachesInFlight(tab) == {t \in Tasks : pc[t] = "attach" /\ tabId[ses[t]] = tab}
BatchesInFlight(tab) == {t \in Tasks : pc[t] = "enable" /\ tabId[ses[t]] = tab}

\* C28: under any interleaving of overlapping getOrCreate calls for one
\* target, at most one attach request for the target is in flight at a time.
C28_OneAttachInFlight ==
  \A tab \in Tabs : Cardinality(AttachesInFlight(tab)) <= 1

\* C29: for one target at most one enable batch is in flight at any time,
\* under any interleaving of getOrCreate calls, removes and detach events.
C29_OneBatchInFlight ==
  \A tab \in Tabs : Cardinality(BatchesInFlight(tab)) <= 1

\* ------------------------------------------------------------ C33
\* The results waitForLoad returned to the call (to navigate, or to handleCommand).
WaitResults(t) == {hist[t][i].x : i \in {j \in DOMAIN hist[t] : hist[t][j].ev = "wait"}}

\* C33: a navigate whose page-load wait, entered after a successful
\* Page.navigate, has timed out or failed does not report success.
C33_NavigateReflectsWait ==
  \A t \in Tasks :
    (op[t].kind = "command" /\ op[t].cmd = "navigate" /\ pc[t] = "done") =>
      \A r \in WaitResults(t) : ~r.success => ~res[t].success

\* ------------------------------------------------------------ C31
\* Call t is a snapshot of the tab whose two fetches were answered and which
\* returns success in this step.
SnapshotSucceeds(t, tab) ==
  /\ op[t].kind = "command" /\ op[t].cmd = "snapshot" /\ op[t].tab = tab
  /\ pc[t] = "send" /\ step[t] = Len(Methods("snapshot"))
  /\ pc'[t] = "done" /\ res'[t] = Success
  /\ Last(hist'[t]).ev = "update"
C31_Step ==
  \A tab \in Tabs :
    refStores'[tab].refs # refStores[tab].refs => \E t \in Tasks : SnapshotSucceeds(t, tab)
\* C31: the contents of a target's Ref Table change only in the step in which
\* a snapshot of that target succeeds: no step of navigate, click, type,
\* pressKey, screenshot, evaluate or waitForLoad changes them, and a snapshot
\* one of whose two fetches fails leaves the previous contents in place.
C31_OnlySnapshotChangesTable == [][C31_Step]_vars

\* The fetches a snapshot call had rejected.
FailedFetches(t) ==
  {hist[t][i - 1].x.m : i \in {j \in DOMAIN hist[t] : hist[t][j].ev = "send.fail"}}
\* A snapshot filled the table with e0 and e1; the next snapshot's layout
\* fetch was rejected and the table still holds the two Refs.
C31_Witness ==
  \E t, u \in Tasks :
    /\ t < u
    /\ op[t].kind = "command" /\ op[t].cmd = "snapshot"
    /\ HasEv(t, "update") /\ Last(hist[t]).x = <<MkRef(0, 2), MkRef(1, 1)>>
    /\ op[u].kind = "command" /\ op[u].cmd = "snapshot" /\ pc[u] = "done"
    /\ ~res[u].success /\ FailedFetches(u) = {"DOMSnapshot.captureSnapshot"}
    /\ refStores[Target].refs = {MkRef(0, 2), MkRef(1, 1)}

\* ------------------------------------------------------------ C34
\* The protocol calls the call has made so far, in order, and those among
\* them that were forwarded to the browser.
Sends(t) == SelectSeq(hist[t], LAMBDA e : e.ev = "send")
Issued(t) == SelectSeq(Sends(t), LAMBDA e : e.x.fwd)
IsClick(t) == op[t].kind = "command" /\ op[t].cmd = "click"
\* The order the claim states.
ClickOrder == <<"DOM.scrollIntoViewIfNeeded", "DOM.getBoxModel",
                "Input.dispatchMouseEvent mousePressed",
                "Input.dispatchMouseEvent mouseReleased">>
\* The calls of a click are a prefix of the order, nothing follows a call that
\* was refused or rejected, and a click that returned success made all four.
C34_Order ==
  \A t \in Tasks :
    IsClick(t) =>
      /\ Len(Sends(t)) <= Len(ClickOrder)
      /\ \A k \in DOMAIN Sends(t) :
           /\ Sends(t)[k].x.m = ClickOrder[k]
           /\ k < Len(Sends(t)) => Sends(t)[k].x.fwd
      /\ \A i \in DOMAIN hist[t] :
           hist[t][i].ev = "send.fail" => \A j \in DOMAIN hist[t] : j > i => hist[t][j].ev # "send"
      /\ (pc[t] = "done" /\ res[t].success) => Len(Issued(t)) = Len(ClickOrder)
      /\ \A k \in DOMAIN Issued(t) :
           Issued(t)[k].x.m = "Input.dispatchMouseEvent mouseReleased" =>
             \E j \in 1..(k - 1) : Issued(t)[j].x.m = "Input.dispatchMouseEvent mousePressed"
\* A click makes its next call in the step in which the browser accepts the
\* previous one (the debugger is attached and the call was not cut off), and
\* its first call once the ref was found.
C34_Step ==
  \A t \in Tasks :
    (IsClick(t)' /\ Len(Sends(t))' > Len(Sends(t))) =>
      /\ Len(Sends(t))' = Len(Sends(t)) + 1
      /\ IF Len(Sends(t)) = 0
         THEN Last(SelectSeq(hist'[t], LAMBDA e : e.ev = "lookup")).x.found
         ELSE /\ pc[t] = "send" /\ step[t] = Len(Sends(t))
              /\ dbg[op[t].tab] /\ ~doomed[t]
\* C34: click on a known ref issues scroll-into-view, box-model query,
\* mousePressed, mouseReleased in that order, each only after the previous one
\* succeeded; after a failed step no later call is issued, and mouseReleased is
\* never sent without a preceding successful mousePressed.
C34_ClickOrder == [](C34_Order) /\ [][C34_Step]_vars

\* The browser rejected a click's mousePressed: the click failed after three
\* calls and sent no mouseReleased.
C34_Witness ==
  \E t \in Tasks :
    /\ IsClick(t) /\ pc[t] = "done" /\ ~res[t].success
    /\ Len(Issued(t)) = 3 /\ Last(hist[t]).ev = "send.fail"

\* ------------------------------------------------------------ C32
\* What the extension holds for a target: its registry entry, its session
\* objects with their attached flags, and its Ref Table.
StateOf(tab) ==
  [entry |-> sessions[tab],
   objects |-> {<<s, attached[s]>> : s \in {u \in SessIds : tabId[u] = tab}},
   table |-> refStores[tab]]
\* The call takes a step.
Acts(t) == pc'[t] # pc[t] \/ hist'[t] # hist[t] \/ op'[t] # op[t]
C32_Step ==
  \A tab \in Tabs :
    StateOf(tab)' # StateOf(tab) => \E t \in Tasks : Acts(t) /\ op'[t].tab = tab
\* C32: a step of getOrCreate, remove, snapshot or click for one target leaves
\* the session objects, attached flags, registry entry and Ref Table of every
\* other target unchanged.
C32_TargetsAreIndependent == [][C32_Step]_vars

\* Both targets had a session and a filled table; remove for the first one
\* dropped its entry, and the other target's session is still registered and
\* attached, its table still filled.
C32_Witness ==
  /\ \E t \in Tasks : op[t].kind = "remove" /\ op[t].tab = 1 /\ HasEv(t, "detach.ok")
  /\ sessions[1] = None /\ refStores[1].refs # {}
  /\ sessions[2] # None /\ attached[sessions[2]] /\ refStores[2].refs # {}

\* ------------------------------------------------------------ C35
\* A type command with a ref, and whether its lookup has found the ref.
IsTypeRef(t) == op[t].kind = "command" /\ op[t].cmd = "type" /\ op[t].options.hasRef
Lookups(t) == SelectSeq(hist[t], LAMBDA e : e.ev = "lookup")
\* The order the claim states, for the options and text of the command.
TypeOrder(o) ==
  ClickOrder \o (IF o.options.clear THEN ClearKeys ELSE <<>>)
             \o (IF o.options.pressSequentially THEN CharKeys(o.text)
                 ELSE <<"Input.insertText">>)
\* The click of the call failed: its ref is unknown, or one of its four calls
\* was refused or rejected.
ClickFailed(t) ==
  \/ Lookups(t) # <<>> /\ ~Lookups(t)[1].x.found
  \/ /\ Sends(t) # <<>> /\ Len(Sends(t)) <= Len(ClickOrder)
     /\ \/ ~Last(Sends(t)).x.fwd
        \/ Last(hist[t]).ev = "send.fail"
\* The failure the click returned.
ClickFailure(t) ==
  IF Sends(t) = <<>> THEN Failure("RefNotFound")
  ELSE IF ~Last(Sends(t)).x.fwd THEN Failure("NotAttached")
  ELSE Failure("Protocol")
C35_Order ==
  \A t \in Tasks :
    IsTypeRef(t) =>
      /\ Len(Sends(t)) <= Len(TypeOrder(op[t]))
      /\ \A k \in DOMAIN Sends(t) :
           /\ Sends(t)[k].x.m = TypeOrder(op[t])[k]
           /\ k < Len(Sends(t)) => Sends(t)[k].x.fwd
      /\ \A i \in DOMAIN hist[t] :
           hist[t][i].ev = "send.fail" => \A j \in DOMAIN hist[t] : j > i => hist[t][j].ev # "send"
      /\ Sends(t) # <<>> => (Lookups(t) # <<>> /\ Lookups(t)[1].x.found)
      /\ ClickFailed(t) =>
           /\ pc[t] = "done" /\ res[t] = ClickFailure(t)
           /\ \A k \in DOMAIN Sends(t) : Sends(t)[k].x.m \in {ClickOrder[j] : j \in DOMAIN ClickOrder}
      /\ (pc[t] = "done" /\ res[t].success) => Len(Issued(t)) = Len(TypeOrder(op[t]))
\* The call after the click (the first clear key, or the text input) is made
\* in the step in which the browser accepts the click's mouseReleased.
C35_Step ==
  \A t \in Tasks :
    (IsTypeRef(t)' /\ Len(Sends(t)) = Len(ClickOrder) /\ Len(Sends(t))' > Len(ClickOrder)) =>
      /\ pc[t] = "send" /\ step[t] = Len(ClickOrder)
      /\ dbg[op[t].tab] /\ ~doomed[t]
\* C35: type with a ref performs the click on that ref first; if the click
\* fails (unknown ref, or a protocol call refused or rejected) it returns that
\* failure and sends no clear key and no text input; when the click succeeds
\* the order is click, the clear key sequence if requested, the text input.
C35_TypeClicksFirst == [](C35_Order) /\ [][C35_Step]_vars

\* A type with a ref and clear: the browser rejected the click's mousePressed,
\* type returned that failure after three calls.
C35_Witness ==
  \E t \in Tasks :
    /\ IsTypeRef(t) /\ op[t].options.clear /\ pc[t] = "done"
    /\ res[t] = Failure("Protocol")
    /\ Len(Issued(t)) = 3 /\ Last(hist[t]).ev = "send.fail"

\* ------------------------------------------------------------ C36
\* The lines of a text that carry the tag [ref=id].
LinesOf(text, id) == {i \in DOMAIN text : text[i][4] = id}

\* C36: every Ref a resolution pass returns appears on exactly one line of the
\* pass's tree text, as that line's [ref=id] tag, for every node list.
C36_EveryRefOnOneLine ==
  \A t \in Passes : \A k \in DOMAIN res[t].refs :
    Cardinality(LinesOf(res[t].tree, res[t].refs[k].id)) = 1

\* ------------------------------------------------------------ C38
\* Every TreeNode of the trees has a Ref, a child or a name.
RECURSIVE Justified(_)
Justified(trees) ==
  \/ trees = <<>>
  \/ /\ \/ Head(trees).ref # <<>>
        \/ Head(trees).children # <<>>
        \/ Head(trees).node.name # ""
     /\ Justified(Head(trees).children)
     /\ Justified(Tail(trees))
\* The node has no Ref and no name, and no node below it has one: nothing
\* can keep it.
Bare(t, i) ==
  LET nodes == op[t].nodes
  IN \A d \in ({i} \cup Descendants(nodes, i)) \cap DOMAIN nodes :
       nodes[d].ignored \/ (~HasRef(t, d) /\ nodes[d].name = "")

\* C38: every node of the display tree built, the root included, has a
\* resolved Ref, at least one kept child or a non-empty name; a non-ignored
\* node reachable from the root that has none of the three is not in the tree.
C38_KeptNodesAreJustified ==
  \A t \in Passes :
    /\ Justified(Built(t))
    /\ \A i \in Displayed(op[t].nodes) \cap DOMAIN op[t].nodes :
         (~op[t].nodes[i].ignored /\ Bare(t, i)) => Occurrences(Built(t), i) = 0

\* A root with two children, a generic node with nothing to show and a
\* button with a Ref: the tree has the root and the button only.
C38_Witness ==
  \E t \in Passes :
    LET nodes == op[t].nodes
    IN /\ Len(nodes) = 3 /\ Root(nodes).nodeId = 1
       /\ ChildOf(nodes, 1) = {2, 3}
       /\ ~nodes[2].ignored /\ Bare(t, 2) /\ Occurrences(Built(t), 2) = 0
       /\ HasRef(t, 3) /\ Occurrences(Built(t), 3) = 1
       /\ Occurrences(Built(t), 1) = 1

\* ------------------------------------------------------------ C37
\* The rule of the claim.  A kept node prints no line when its role is one of
\* the three structural roles in any letter case and it has no Ref.
Omitted(treeNode) ==
  /\ treeNode.node.role \in {"none", "generic", "genericcontainer", "GenericContainer"}
  /\ treeNode.ref = <<>>
\* The kept nodes that print a line, in document order, each with the depth
\* the rule gives it: an omitted node passes its own depth on to its children,
\* every other node puts them one level deeper.
RECURSIVE Printed(_, _)
Printed(trees, depth) ==
  IF trees = <<>> THEN <<>>
  ELSE LET n == Head(trees)
       IN (IF Omitted(n)
           THEN Printed(n.children, depth)
           ELSE <<[depth |-> depth, ref |-> n.ref]>> \o Printed(n.children, depth + 1))
            \o Printed(Tail(trees), depth)

\* C37: in the tree text a kept node of role none, generic or
\* genericcontainer (in any letter case) without a Ref has no line and its
\* children stand at the depth it would have had; every other kept node has
\* one line, its children one level deeper.
C37_SkippedRolesKeepDepth ==
  \A t \in Passes :
    Built(t) # <<>> =>
      LET lines == Printed(Built(t), 0)
          text == res[t].tree
      IN /\ Len(text) = Len(lines)
         /\ \A i \in DOMAIN text :
              /\ text[i][1] = lines[i].depth
              /\ text[i][4] = (IF lines[i].ref = <<>> THEN <<>> ELSE lines[i].ref[1].id)

\* A root, below it a GenericContainer without a Ref, below that a button
\* with a Ref: the text has the root's line and the button's line at depth 1.
C37_Witness ==
  \E t \in Passes :
    LET nodes == op[t].nodes
    IN /\ Len(nodes) = 3 /\ Root(nodes).nodeId = 1
       /\ nodes[2].role = "GenericContainer" /\ Occurrences(Built(t), 2) = 1
       /\ ChildOf(nodes, 1) = {2} /\ ChildOf(nodes, 2) = {3}
       /\ HasRef(t, 3)
       /\ Len(res[t].tree) = 2
       /\ res[t].tree[1][1] = 0 /\ res[t].tree[2][1] = 1

====
